---------------------------- MODULE Spec2Model ----------------------------
(***************************************************************************)
(* Deep Loop plugin: the stop hooks that drive one session through its     *)
(* phases (part_008 = stop hook v4.0, src/stop-hook-v2.js,                 *)
(* src/stop-hook-enhanced.js) and the claim-based task queue of            *)
(* deep-execute (part_001).                                                *)
(*                                                                         *)
(* Every file under the session directory is a variable.  One hook         *)
(* invocation is one action (the process starts, reads the files, writes   *)
(* what it writes and exits with code 0 = allow or 2 = block).  Between    *)
(* invocations the worker and the operator change files and time passes.  *)
(* Times are milliseconds since the session was created.                   *)
(***************************************************************************)
EXTENDS Integers, Sequences, FiniteSets, TLC

VARIABLES
    hook,          \* which stop hook is installed: "v4", "v2" or "enhanced"
    now,           \* Date.now()
    state,         \* state.json (NoFile when absent)
    stateMtime,    \* mtime of state.json
    forceExit,     \* FORCE_EXIT exists
    forceComplete, \* FORCE_COMPLETE: NoFile or its text (the reason)
    ralphHandoff,  \* RALPH_HANDOFF exists
    escalation,    \* NEEDS_USER: NoFile or [taskId |-> ...]
    testResults,   \* test-results.json: NoFile or a record
    gitResults,    \* git-results.json: NoFile or a record
    tasksData,     \* persistent-tasks.json: NoFile or a record
    failures,      \* failures.json: task id -> failure count (0: no entry)
    rlmContext,    \* rlm-context.json: NoFile or [sub_calls |-> n]
    transcript,    \* the transcript file: a sequence of lines
    decision,      \* what the last invocation returned: "allow", "block"; "none" between invocations
    reason,        \* the message the last invocation printed (its exit path)
    tasks,         \* tasks.md: task id -> [present, priority, attempts]
    claims,        \* claims.json: task id -> NoClaim or [claimedBy, claimedAt, expiresAt]
    wpc,           \* deep-execute worker -> step of the execution flow it is at
    wseen,         \* worker -> the claims.json content it read in Step 2
    wtask,         \* worker -> the task it targets / executes
    wexpires,      \* worker -> expiresAt of the claim it wrote
    dateWorks,     \* the machine's date command accepts -d or -v
    completedTasks,\* completed-tasks.md: task id -> NoEntry or [status, session, commit]
    spc,           \* SHIP phase of a session: the step of push and completion handling it is at
    PUSH_ATTEMPTS, \* shell variable of the push loop
    PUSH_SUCCESS,  \* shell variable of the push loop
    GIT_CONFLICT,  \* shell variable of the push loop
    rebasing,      \* a rebase is in progress in the working tree
    head,          \* the commit the working branch points at
    origin,        \* the commit origin/{branch} points at
    recoveryBranch,\* the commit deep-recovery/task-XXX-{session8} points at ("absent": no such branch)
    gitConflicts,  \* git-conflicts.json: NoFile or the record of the task
    resultHandler, \* deep-triage BUILD: the result-handling description the orchestrator follows
    tasksStatus,   \* tasks-status.json: task id -> [status, attempts, lastError]
    agents,        \* task id -> the prompts of the Task agents spawned for it, in order
    running,       \* task id -> number of its Task agents that have not reported yet
    askedUser,     \* task id -> AskUserQuestion was issued for it
    ciElapsed,     \* waitForCI: Date.now() - startTime
    ciPolls,       \* waitForCI: number of gh pr checks calls made
    ciResult,      \* waitForCI: NoReturn while polling, then the value returned
    lockFile,      \* .deep/agent.lock: NoFile, CorruptFile or [agentId, acquiredAt]
    lpc,           \* process -> where it is in acquireLock / releaseLock
    lheld,         \* process -> NotHeld or [held, at]: the lock it was granted and its acquiredAt
    added,         \* number of work items written to tasks.md so far by deep-add and deep-plan
    visitStart     \* length of the transcript when the session entered its current phase

hookVars  == <<hook, now, state, stateMtime, forceExit, forceComplete, ralphHandoff,
               escalation, testResults, gitResults, tasksData, failures, rlmContext,
               transcript, decision, reason>>
queueVars == <<tasks, claims, wpc, wseen, wtask, wexpires, dateWorks, completedTasks>>
shipVars  == <<spc, PUSH_ATTEMPTS, PUSH_SUCCESS, GIT_CONFLICT, rebasing, head, origin,
               recoveryBranch, gitConflicts>>
triageVars == <<resultHandler, tasksStatus, agents, running, askedUser>>
ciVars    == <<ciElapsed, ciPolls, ciResult>>
lockVars  == <<lockFile, lpc, lheld>>
histVars  == <<added, visitStart>>
vars      == <<hookVars, queueVars, shipVars, triageVars, ciVars, lockVars, histVars>>

\* an absent file, an absent entry of claims.json, no task (task ids start at 1)
NoFile  == [file |-> "absent"]
NoClaim == [claim |-> "absent"]

\* an entry of completed-tasks.md: "## [x] task-XXX", Session, Commit
LedgerEntryNoCommit(status, session, commit) ==
    [status |-> status, session |-> session, commit |-> "none"]

LedgerEntry(status, session, commit) ==
    [status |-> status, session |-> session, commit |-> commit]
NoEntry == [entry |-> "absent"]

\* COMMIT_SHA=$(git rev-parse --short HEAD 2>/dev/null || echo "no-git")
COMMIT_SHA(h) == IF h = "absent" THEN "no-git" ELSE h
NoTask  == 0

MaxTasks == 2                  \* tasks of a backlog / of persistent-tasks.json
TaskIds  == 1..MaxTasks
\* failures.json without an entry for any task (or absent)
NoFailures == [i \in TaskIds |-> 0]

----------------------------------------------------------------------------
(* Bounds of the exploration *)

MaxTicks   == 2   \* clock ticks of the session model
MaxLog     == 2   \* lines the worker appends to the transcript
MaxCeiling == 2   \* maxIterations a session is created with
MaxIteration == 3 \* the hooks are not run beyond this value of the iteration counter

TickMs == 5 * 60 * 60 * 1000       \* one clock tick of the session model: 5 hours
LineBytes == 1024                  \* size of a transcript line the worker appends

----------------------------------------------------------------------------
(* Configuration of the hooks *)

STALE_THRESHOLD_MS     == 8 * 60 * 60 * 1000
TRANSCRIPT_TAIL_BYTES  == 50 * 1024
ASSISTANT_WINDOW       == 10
DEFAULT_MAX_ITERATIONS == 10
QUICK_MAX_ITERATIONS   == 3

DEEP_COMPLETE  == "DEEP_COMPLETE"
QUICK_COMPLETE == "QUICK_COMPLETE"

Phases == {"CHALLENGE", "RLM_EXPLORE", "PLAN", "BUILD", "REVIEW", "FIX", "SHIP", "COMPLETE"}
NoPhase == "undefined"

\* PHASE_PROMISES[phase]; "undefined" for a phase that has no entry
PHASE_PROMISES(phase) ==
    CASE phase = "CHALLENGE"   -> "CHALLENGE_COMPLETE"
      [] phase = "RLM_EXPLORE" -> "RLM_COMPLETE"
      [] phase = "PLAN"        -> "PLAN_COMPLETE"
      [] phase = "BUILD"       -> "BUILD_COMPLETE"
      [] phase = "REVIEW"      -> "REVIEW_COMPLETE"
      [] phase = "FIX"         -> "FIX_COMPLETE"
      [] phase = "SHIP"        -> "SHIP_COMPLETE"
      [] OTHER                 -> "undefined"

----------------------------------------------------------------------------
(* Small helpers *)

Max(a, b) == IF a >= b THEN a ELSE b
Min(a, b) == IF a <= b THEN a ELSE b

\* s.slice(-n)
LastN(s, n) == SubSeq(s, Max(1, Len(s) - n + 1), Len(s))

Range(s) == {s[i] : i \in 1..Len(s)}

----------------------------------------------------------------------------
(* state.json *)

\* The record /deep writes when it creates a session (skills/deep/SKILL.md) or
\* /deep-quick writes (part_005 Step 1).  A field the file does not hold is
\* "undefined" (phase of a quick session) or 0 (maxIterations).
NewState(mode, ceiling, phase) ==
    [ active        |-> TRUE,
      mode          |-> mode,
      phase         |-> phase,
      iteration     |-> 0,
      maxIterations |-> ceiling,
      complete      |-> FALSE,
      startedAt     |-> 0,
      lastActivity  |-> 0,
      current_step  |-> "undefined",
      result        |-> "undefined" ]

isQuickMode(st)    == st.mode = "quick"
isExternalMode(st) == st.mode = "external"

\* v4.0: getMaxIterations
getMaxIterations(st) ==
    IF isQuickMode(st) THEN QUICK_MAX_ITERATIONS
    ELSE IF st.maxIterations # 0 THEN st.maxIterations ELSE DEFAULT_MAX_ITERATIONS

\* v4.0: isStale measures from the start of the session
isStale(st, t) == t - st.startedAt > STALE_THRESHOLD_MS

\* v2 / enhanced: isStateStale measures from the mtime of state.json; a file
\* that cannot be stat'ed counts as stale
isStateStale(st, mtime, t) ==
    IF st = NoFile THEN TRUE ELSE t - mtime > STALE_THRESHOLD_MS

----------------------------------------------------------------------------
(* Completion signal detector (v4.0) *)

\* One line of the transcript.
\*   role    who wrote the entry ("assistant" = the worker)
\*   part    type of its content part: "text", "tool_use", or "string" when
\*           message.content is not an array
\*   promise the <promise>..</promise> tag its content holds ("none")
\*   step    the first STEP_PATTERNS entry its raw text matches ("none")
\*   json    whether JSON.parse accepts the line
\*   bytes   its length;  cut: its head was cut off by the tail read
Line(role, part, promise, step, json, bytes) ==
    [role |-> role, part |-> part, promise |-> promise, step |-> step,
     json |-> json, bytes |-> bytes, cut |-> FALSE]

RECURSIVE SuffixBytes(_, _)
SuffixBytes(log, i) ==
    IF i > Len(log) THEN 0 ELSE log[i].bytes + SuffixBytes(log, i + 1)

\* readTranscriptTail: the last TRANSCRIPT_TAIL_BYTES bytes of the file.  The
\* line the window starts in loses its head.
readTranscriptTail(log) ==
    IF SuffixBytes(log, 1) <= TRANSCRIPT_TAIL_BYTES THEN log
    ELSE LET first == CHOOSE i \in 1..Len(log) :
                         /\ SuffixBytes(log, i) > TRANSCRIPT_TAIL_BYTES
                         /\ SuffixBytes(log, i + 1) <= TRANSCRIPT_TAIL_BYTES
             kept  == TRANSCRIPT_TAIL_BYTES - SuffixBytes(log, first + 1)
             rest  == SubSeq(log, first + 1, Len(log))
         IN  IF kept = 0 THEN rest
             ELSE <<[log[first] EXCEPT !.cut = TRUE]>> \o rest

\* l.includes('"role":"assistant"'): the marker stands at the head of the line
hasAssistantMarker(l) == l.role = "assistant" /\ ~l.cut

RECURSIVE filterAssistant(_)
filterAssistant(lines) ==
    IF lines = <<>> THEN <<>>
    ELSE IF hasAssistantMarker(Head(lines))
         THEN <<Head(lines)>> \o filterAssistant(Tail(lines))
         ELSE filterAssistant(Tail(lines))

\* a scan that looks into every content part, whatever its type
lineHasPromiseAnyPart(l, promise) ==
    /\ l.json /\ ~l.cut
    /\ l.part \in {"text", "tool_use"}
    /\ l.promise = promise

\* the body of the for loop: parse the line, join its text parts, look for the tag
lineHasPromise(l, promise) ==
    /\ l.json /\ ~l.cut
    /\ l.part = "text"
    /\ l.promise = promise

\* a scan of every assistant line of the whole file
checkPromiseWholeFile(log, promise) ==
    LET assistantLines == filterAssistant(log)
    IN  \E i \in 1..Len(assistantLines) : lineHasPromise(assistantLines[i], promise)

\* a scan that gives up at the first line JSON.parse or the content filter rejects
checkPromiseStopsAtMalformed(log, promise) ==
    LET lines          == readTranscriptTail(log)
        assistantLines == LastN(filterAssistant(lines), ASSISTANT_WINDOW)
    IN  \E i \in 1..Len(assistantLines) :
           /\ lineHasPromise(assistantLines[i], promise)
           /\ \A j \in 1..(i - 1) :
                 assistantLines[j].json /\ assistantLines[j].part # "string"

checkPromiseInTranscript(log, promise) ==
    LET lines          == readTranscriptTail(log)
        assistantLines == LastN(filterAssistant(lines), ASSISTANT_WINDOW)
    IN  \E i \in 1..Len(assistantLines) : lineHasPromise(assistantLines[i], promise)

\* detectCurrentStep: newest of the last 10 lines that matches a step pattern
detectCurrentStep(log) ==
    LET recentLines == LastN(readTranscriptTail(log), ASSISTANT_WINDOW)
        hits        == {i \in 1..Len(recentLines) : recentLines[i].step # "none"}
    IN  IF hits = {} THEN "null"
        ELSE recentLines[CHOOSE i \in hits : \A j \in hits : j <= i].step


----------------------------------------------------------------------------
(* Stop hook v4.0 (part_008) *)

\* What one invocation leaves behind: the state.json content, whether the file
\* was written, the markers left on disk, the exit code and the exit path.
Outcome(st, wrote, fx, dec, why) ==
    [state |-> st, wrote |-> wrote, forceExit |-> fx, decision |-> dec, reason |-> why]

\* shouldForceExit without the unlink
shouldForceExitKeepsMarker(fx) == [exit |-> fx, forceExit |-> fx]

\* shouldForceExit: the marker is unlinked when it is found
shouldForceExit(fx) == [exit |-> fx, forceExit |-> FALSE]

\* main of v4.0, from the force-exit check to process.exit
MainV4(st, fx, log, t) ==
    IF shouldForceExit(fx).exit
    THEN Outcome(st, FALSE, shouldForceExit(fx).forceExit, "allow", "force_exit")
    ELSE IF st = NoFile \/ ~st.active
    THEN Outcome(st, FALSE, fx, "allow", "no_active_loop")
    ELSE IF isExternalMode(st)
    THEN IF checkPromiseInTranscript(log, DEEP_COMPLETE)
         THEN Outcome([st EXCEPT !.complete = TRUE, !.phase = "COMPLETE"], TRUE, fx,
                      "allow", "external_complete")
         ELSE Outcome(st, FALSE, fx, "allow", "external")
    ELSE
    LET detectedStep == detectCurrentStep(log)
        stepWrite    == detectedStep # "null" /\ st.current_step # detectedStep
        st1          == IF stepWrite THEN [st EXCEPT !.current_step = detectedStep] ELSE st
        quickMode    == isQuickMode(st1)
        maxIter      == getMaxIterations(st1)
        phasePromise == PHASE_PROMISES(st1.phase)
    IN  IF st1.complete \/ st1.phase = "COMPLETE"
        THEN Outcome(st1, stepWrite, fx, "allow", "already_complete")
        ELSE IF isStale(st1, t)
        THEN Outcome(st1, stepWrite, fx, "allow", "stale")
        ELSE IF st1.iteration >= maxIter
        THEN Outcome(st1, stepWrite, fx, "allow", "iteration_limit")
        ELSE IF quickMode /\ checkPromiseInTranscript(log, QUICK_COMPLETE)
        THEN Outcome([st1 EXCEPT !.complete = TRUE, !.result = "success", !.active = FALSE],
                     TRUE, fx, "allow", "quick_complete")
        ELSE IF phasePromise # "undefined" /\ checkPromiseInTranscript(log, phasePromise)
        THEN Outcome(st1, stepWrite, fx, "allow", "phase_complete")
        ELSE IF checkPromiseInTranscript(log, DEEP_COMPLETE)
        THEN Outcome([st1 EXCEPT !.complete = TRUE, !.phase = "COMPLETE"], TRUE, fx,
                     "allow", "deep_complete")
        ELSE Outcome([st1 EXCEPT !.iteration = st1.iteration + 1, !.lastActivity = t],
                     TRUE, fx, "block", "continue")

\* mtime of state.json after a write at time t.  The v4.0 hook never stats the
\* file, so its sessions do not track it.
Mtime(h, old, wrote, t) == IF wrote /\ h # "v4" THEN t ELSE old

\* the exploration stops where the iteration counter passes the cap
BelowCap(st) == IF st = NoFile THEN TRUE ELSE st.iteration <= MaxIteration

\* One invocation of the v4.0 hook
StopHookV4 ==
    /\ hook = "v4"
    /\ BelowCap(state)
    /\ LET r == MainV4(state, forceExit, transcript, now)
       IN  /\ state'      = r.state
           /\ stateMtime' = Mtime(hook, stateMtime, r.wrote, now)
           /\ forceExit'  = r.forceExit
           /\ decision'   = r.decision
           /\ reason'     = r.reason
    /\ UNCHANGED <<hook, now, forceComplete, ralphHandoff, escalation, testResults,
                   gitResults, tasksData, failures, rlmContext, transcript>>
    /\ UNCHANGED <<queueVars, shipVars, triageVars, ciVars, lockVars, histVars>>

----------------------------------------------------------------------------
(* Verification Gate: test-results.json and git-results.json *)

Categories == <<"tests", "types", "lint", "build">>

NoResult == [result |-> "absent"]
Ran(passed) == [ran |-> TRUE, passed |-> passed]
NotRun      == [ran |-> FALSE, passed |-> FALSE]

TestResults(tests, types, lint, build, allPassed, blockers) ==
    [results   |-> [tests |-> tests, types |-> types, lint |-> lint, build |-> build],
     allPassed |-> allPassed,
     blockers  |-> blockers]       \* number of entries of the blockers list

Verdict(missing, failed) ==
    [valid |-> missing = <<>> /\ failed = <<>>, missing |-> missing, failed |-> failed]

RECURSIVE missingCategories(_, _)
\* the loop over the required categories: what it pushes to missing
missingCategories(tr, cats) ==
    IF cats = <<>> THEN <<>>
    ELSE LET r == tr.results[Head(cats)]
         IN  (IF r = NoResult THEN <<<<Head(cats), "no results">>>>
              ELSE IF ~r.ran THEN <<<<Head(cats), "not run">>>>
              ELSE <<>>) \o missingCategories(tr, Tail(cats))

RECURSIVE failedCategories(_, _)
\* the loop over the required categories: what it pushes to failed
failedCategories(tr, cats) ==
    IF cats = <<>> THEN <<>>
    ELSE LET r == tr.results[Head(cats)]
         IN  (IF r # NoResult /\ r.ran /\ ~r.passed THEN <<<<Head(cats), "failed">>>>
              ELSE <<>>) \o failedCategories(tr, Tail(cats))

\* verifyTestResults that accepts whatever evidence it finds
verifyTestResultsAcceptsAll(tr) == Verdict(<<>>, <<>>)

\* stop-hook-enhanced.js: verifyTestResults
verifyTestResultsEnhanced(tr) ==
    IF tr = NoFile THEN Verdict(<<<<"test-results.json", "not found">>>>, <<>>)
    ELSE LET missing == missingCategories(tr, Categories)
             failed0 == failedCategories(tr, Categories)
             failed1 == IF ~tr.allPassed /\ missing = <<>> /\ failed0 = <<>>
                        THEN <<<<"allPassed", "false">>>> ELSE failed0
             failed2 == IF tr.blockers > 0
                        THEN failed1 \o [i \in 1..tr.blockers |-> <<"blocker", "blocker">>]
                        ELSE failed1
         IN  Verdict(missing, failed2)

\* stop-hook-v2.js: verifyTestResults (no blockers check)
verifyTestResultsV2(tr) ==
    IF tr = NoFile THEN Verdict(<<<<"test-results.json", "not found">>>>, <<>>)
    ELSE LET missing == missingCategories(tr, Categories)
             failed0 == failedCategories(tr, Categories)
             failed1 == IF ~tr.allPassed /\ missing = <<>> /\ failed0 = <<>>
                        THEN <<<<"allPassed", "false">>>> ELSE failed0
         IN  Verdict(missing, failed1)

GitResults(isGitRepo, hasGhCli, prCreated, prNumber, ciChecked, ciPassed, merged, allPassed) ==
    [isGitRepo |-> isGitRepo, hasGhCli |-> hasGhCli,
     prCreated |-> prCreated, prNumber |-> prNumber,   \* pr.number is set
     ciChecked |-> ciChecked, ciPassed |-> ciPassed,
     merged    |-> merged,    allPassed |-> allPassed,
     requirePR |-> TRUE, requireCIPass |-> TRUE, requireMerge |-> TRUE]

GitVerdict(skip, missing, failed) ==
    [valid   |-> skip \/ (missing = <<>> /\ failed = <<>>), skip |-> skip,
     missing |-> missing, failed |-> failed]

gitMissing(gr) ==
    (IF gr.requirePR /\ ~gr.prCreated THEN <<"PR not created">> ELSE <<>>)
    \o (IF gr.requireCIPass /\ ~gr.ciChecked THEN <<"CI not checked">> ELSE <<>>)
    \o (IF gr.requireMerge /\ ~gr.merged THEN <<"PR not merged">> ELSE <<>>)

gitFailed(gr) ==
    IF gr.requireCIPass /\ gr.ciChecked /\ ~gr.ciPassed THEN <<"CI failed">> ELSE <<>>

\* stop-hook-v2.js: verifyGitResults
verifyGitResultsV2(gr) ==
    IF gr = NoFile THEN GitVerdict(TRUE, <<>>, <<>>)
    ELSE IF ~gr.isGitRepo THEN GitVerdict(TRUE, <<>>, <<>>)
    ELSE IF ~gr.hasGhCli THEN GitVerdict(TRUE, <<>>, <<>>)
    ELSE GitVerdict(FALSE, gitMissing(gr), gitFailed(gr))

\* stop-hook-enhanced.js: verifyGitResults (also reads the allPassed flag)
verifyGitResultsEnhanced(gr) ==
    IF gr = NoFile THEN GitVerdict(TRUE, <<>>, <<>>)
    ELSE IF ~gr.isGitRepo THEN GitVerdict(TRUE, <<>>, <<>>)
    ELSE IF ~gr.hasGhCli THEN GitVerdict(TRUE, <<>>, <<>>)
    ELSE LET missing == gitMissing(gr)
             failed0 == gitFailed(gr)
             failed1 == IF ~gr.allPassed /\ missing = <<>> /\ failed0 = <<>>
                        THEN <<"allPassed flag is false">> ELSE failed0
         IN  GitVerdict(FALSE, missing, failed1)

----------------------------------------------------------------------------
(* Persistent tasks: persistent-tasks.json *)

DEFAULT_TASK_STALE_HOURS    == 24
DEFAULT_MAX_ITER_PER_TASK   == 5
MAX_CONSECUTIVE_FAILURES    == 3
RLM_SUB_CALL_LIMIT          == 50

Task(id, status, iteration) ==
    [id |-> id, status |-> status, iteration |-> iteration, createdAt |-> 0]

\* config.maxIterationsPerTask / config.staleThresholdHours: 0 when not set
TasksData(ts, maxIterationsPerTask) ==
    [tasks |-> ts, maxIterationsPerTask |-> maxIterationsPerTask, staleThresholdHours |-> 0]

RECURSIVE filterPending(_, _, _)
filterPending(ts, staleMs, t) ==
    IF ts = <<>> THEN <<>>
    ELSE LET task == Head(ts)
             keep == /\ task.status # "completed"
                     /\ task.status # "blocked"
                     /\ t - task.createdAt <= staleMs
         IN  (IF keep THEN <<task>> ELSE <<>>) \o filterPending(Tail(ts), staleMs, t)

\* getPendingTasks (both hooks; main passes no phase filter)
getPendingTasks(td, t) ==
    IF td = NoFile THEN <<>>
    ELSE LET hours == IF td.staleThresholdHours # 0 THEN td.staleThresholdHours
                      ELSE DEFAULT_TASK_STALE_HOURS
         IN  filterPending(td.tasks, hours * 60 * 60 * 1000, t)

\* pendingTasks.find(t => t.status === 'in_progress') || pendingTasks[0]
currentTask(pending) ==
    LET inProgress == {i \in 1..Len(pending) : pending[i].status = "in_progress"}
    IN  IF inProgress = {} THEN pending[1]
        ELSE pending[CHOOSE i \in inProgress : \A j \in inProgress : i <= j]

\* index of tasksData.tasks.find(t => t.id === taskId); 0 when there is none
findTask(td, id) ==
    LET hits == {i \in 1..Len(td.tasks) : td.tasks[i].id = id}
    IN  IF hits = {} THEN 0 ELSE CHOOSE i \in hits : \A j \in hits : i <= j

\* stop-hook-enhanced.js: markTaskInProgress
markTaskInProgress(td, id) ==
    IF td = NoFile \/ findTask(td, id) = 0 THEN td
    ELSE [td EXCEPT !.tasks[findTask(td, id)].status = "in_progress",
                    !.tasks[findTask(td, id)].iteration = @ + 1]

\* markTaskBlocked whose write does not happen
markTaskBlockedNoWrite(td, id) == td

\* stop-hook-enhanced.js: markTaskBlocked
markTaskBlocked(td, id) ==
    IF td = NoFile \/ findTask(td, id) = 0 THEN td
    ELSE [td EXCEPT !.tasks[findTask(td, id)].status = "blocked"]

----------------------------------------------------------------------------
(* Stop hook "enhanced" (src/stop-hook-enhanced.js) *)

\* shouldForceComplete: the reason is printed and the marker is unlinked
shouldForceComplete(fc) == [exit |-> fc # NoFile, forceComplete |-> NoFile]

\* shouldRalphHandoff
shouldRalphHandoff(rh) == [exit |-> rh, ralphHandoff |-> FALSE]

\* getPhasePrompt of the enhanced hook returns a prompt for these phases only
hasPromptEnhanced(phase) == phase \in {"PLAN", "BUILD", "REVIEW", "FIX"}

\* getPhasePrompt of the v2.1 hook
hasPromptV2(phase) == phase \in {"PLAN", "BUILD", "REVIEW", "FIX", "SHIP"}

\* cleanupDeepDirectory: whether it removes the .deep directory
cleanupRemoves(fc, tr) ==
    /\ fc = NoFile
    /\ ~(tr # NoFile /\ ~tr.allPassed)

\* a CHECK 3 that cleans up behind any session record
cleanupDueAnyRecord(st) == st # NoFile

\* CHECK 3 of main: the condition under which cleanupDeepDirectory is called
cleanupDue(st) == st # NoFile /\ st.complete /\ st.phase = "COMPLETE"

\* the files one invocation may touch, as found at its start
Disk(st, fx, fc, rh, esc, gr, td) ==
    [state |-> st, wrote |-> FALSE, forceExit |-> fx, forceComplete |-> fc,
     ralphHandoff |-> rh, escalation |-> esc, gitResults |-> gr, tasksData |-> td,
     cleaned |-> FALSE, decision |-> "none", reason |-> "none"]

Exit(d, dec, why) == [d EXCEPT !.decision = dec, !.reason = why]

\* CHECK 2 and CHECK 3 of main, entered with the state object st as main holds it
EnhancedTasksAndCleanup(d, st, deepLoopActive, tr, t) ==
    LET td      == d.tasksData
        pending == getPendingTasks(td, t)
        current == currentTask(pending)
        maxIter == IF td.maxIterationsPerTask # 0 THEN td.maxIterationsPerTask
                   ELSE DEFAULT_MAX_ITER_PER_TASK
        blocked   == markTaskBlocked(td, current.id)
        remaining == getPendingTasks(blocked, t)
        done    == IF cleanupDue(st) /\ cleanupRemoves(d.forceComplete, tr)
                   THEN [d EXCEPT !.cleaned = TRUE]
                   ELSE d
    IN  IF ~deepLoopActive /\ Len(pending) > 0
        THEN IF current.iteration >= maxIter
             THEN IF Len(remaining) > 0
                  THEN Exit([d EXCEPT !.tasksData = markTaskInProgress(blocked, remaining[1].id)],
                            "block", "tasks_remaining")
                  ELSE Exit([done EXCEPT !.tasksData = IF done.cleaned THEN td ELSE blocked],
                            "allow", "exit_allowed")
             ELSE Exit([d EXCEPT !.tasksData = markTaskInProgress(td, current.id)],
                       "block", "tasks_remaining")
        ELSE Exit(done, "allow", "exit_allowed")

\* CHECK 1.5 and 1.6 of main, then the rest
EnhancedVerify(d, st, deepLoopActive, tr, t) ==
    LET testVerification == verifyTestResultsEnhanced(tr)
        gitVerification  == verifyGitResultsEnhanced(d.gitResults)
        reset == [st EXCEPT !.phase = "REVIEW", !.complete = FALSE,
                            !.iteration = st.iteration + 1, !.lastActivity = t]
    IN  IF st # NoFile /\ (st.complete \/ st.phase = "COMPLETE")
        THEN IF ~testVerification.valid
             THEN Exit([d EXCEPT !.state = reset, !.wrote = TRUE],
                       "block", "test_verification_failed")
             ELSE IF ~gitVerification.skip /\ ~gitVerification.valid
             THEN Exit([d EXCEPT !.state = reset, !.wrote = TRUE],
                       "block", "git_verification_failed")
             ELSE EnhancedTasksAndCleanup(d, st, deepLoopActive, tr, t)
        ELSE EnhancedTasksAndCleanup(d, st, deepLoopActive, tr, t)

\* main of the enhanced hook
MainEnhanced(st, mtime, fx, fc, rh, tr, gr, td, t) ==
    LET d == Disk(st, fx, fc, rh, NoFile, gr, td)
    IN  IF shouldForceExit(fx).exit
        THEN Exit([d EXCEPT !.forceExit = shouldForceExit(fx).forceExit], "allow", "force_exit")
        ELSE IF shouldForceComplete(fc).exit
        THEN Exit([d EXCEPT !.forceComplete = shouldForceComplete(fc).forceComplete],
                  "allow", "force_complete")
        ELSE IF shouldRalphHandoff(rh).exit
        THEN Exit([d EXCEPT !.ralphHandoff = shouldRalphHandoff(rh).ralphHandoff],
                  "allow", "ralph_handoff")
        ELSE IF st # NoFile /\ ~st.complete /\ st.phase # "COMPLETE"
        THEN IF isStateStale(st, mtime, t)
             THEN EnhancedVerify(d, st, FALSE, tr, t)
             ELSE IF st.maxIterations # 0 /\ st.iteration >= st.maxIterations
             THEN EnhancedVerify(d, st, FALSE, tr, t)
             ELSE LET st1 == [st EXCEPT !.iteration = st.iteration + 1, !.lastActivity = t]
                      d1  == [d EXCEPT !.state = st1, !.wrote = TRUE]
                  IN  IF hasPromptEnhanced(st1.phase)
                      THEN Exit(d1, "block", "phase_prompt")
                      ELSE EnhancedVerify(d1, st1, TRUE, tr, t)
        ELSE EnhancedVerify(d, st, FALSE, tr, t)

\* One invocation of the enhanced hook.  Its cleanup removes the whole .deep
\* directory, which also holds the queue files of deep-execute.
StopHookEnhanced ==
    /\ hook = "enhanced"
    /\ BelowCap(state)
    /\ LET r == MainEnhanced(state, stateMtime, forceExit, forceComplete, ralphHandoff,
                             testResults, gitResults, tasksData, now)
       IN  /\ state'         = IF r.cleaned THEN NoFile ELSE r.state
           /\ stateMtime'    = Mtime(hook, stateMtime, r.wrote, now)
           /\ forceExit'     = r.forceExit
           /\ forceComplete' = r.forceComplete
           /\ ralphHandoff'  = r.ralphHandoff
           /\ testResults'   = IF r.cleaned THEN NoFile ELSE testResults
           /\ gitResults'    = IF r.cleaned THEN NoFile ELSE r.gitResults
           /\ tasksData'     = IF r.cleaned THEN NoFile ELSE r.tasksData
           /\ tasks'         = IF r.cleaned THEN <<>> ELSE tasks
           /\ claims'        = IF r.cleaned THEN [i \in DOMAIN claims |-> NoClaim] ELSE claims
           /\ completedTasks' = IF r.cleaned THEN [i \in DOMAIN completedTasks |-> NoEntry]
                                ELSE completedTasks
           /\ gitConflicts'  = IF r.cleaned THEN NoFile ELSE gitConflicts
           /\ decision'      = r.decision
           /\ reason'        = r.reason
    /\ UNCHANGED <<hook, now, escalation, failures, rlmContext, transcript>>
    /\ UNCHANGED <<wpc, wseen, wtask, wexpires, dateWorks>>
    /\ UNCHANGED <<spc, PUSH_ATTEMPTS, PUSH_SUCCESS, GIT_CONFLICT, rebasing, head, origin,
                   recoveryBranch>>
    /\ UNCHANGED <<triageVars, ciVars, lockVars, histVars>>

----------------------------------------------------------------------------
(* Stop hook v2.1 (src/stop-hook-v2.js) *)

\* checkIterationLimit(state).blocked
checkIterationLimit(st) ==
    /\ st # NoFile
    /\ st.maxIterations # 0
    /\ st.iteration >= st.maxIterations

\* checkUserEscalation(taskId).escalate; fl is failures.json
checkUserEscalation(fl, id) ==
    /\ id \in DOMAIN fl
    /\ fl[id] >= MAX_CONSECUTIVE_FAILURES

\* checkRlmCosts().blocked
checkRlmCosts(rlm) == rlm # NoFile /\ rlm.sub_calls >= RLM_SUB_CALL_LIMIT

\* what waitForCI can return: passed, failed checks, or the 10 minute timeout
CiResults == {[passed |-> TRUE, timeout |-> FALSE],
              [passed |-> FALSE, timeout |-> FALSE],
              [passed |-> FALSE, timeout |-> TRUE]}

Includes(list, x) == \E i \in 1..Len(list) : list[i] = x

\* "Check persistent tasks" to the end of main
V2TasksAndExit(d, fl, t) ==
    LET pending == getPendingTasks(d.tasksData, t)
        current == currentTask(pending)
    IN  IF Len(pending) > 0
        THEN IF checkUserEscalation(fl, current.id)
             THEN Exit([d EXCEPT !.escalation = [taskId |-> current.id]],
                       "block", "escalation_required")
             ELSE Exit(d, "block", "tasks_remaining")
        ELSE Exit(d, "allow", "exit_allowed")

\* "Verify completion" of main, entered with the state object st as main holds it
V2Verify(d, st, tr, fl, ci, t) ==
    LET testV  == verifyTestResultsV2(tr)
        gr     == d.gitResults
        gitV   == verifyGitResultsV2(gr)
        polled == [gr EXCEPT !.ciChecked = TRUE, !.ciPassed = ci.passed]
        gitV2  == verifyGitResultsV2(polled)
        review == [st EXCEPT !.phase = "REVIEW", !.complete = FALSE]
        fix    == [st EXCEPT !.phase = "FIX", !.complete = FALSE]
    IN  IF st # NoFile /\ (st.complete \/ st.phase = "COMPLETE" \/ st.phase = "SHIP")
        THEN IF ~testV.valid
             THEN Exit([d EXCEPT !.state = review, !.wrote = TRUE],
                       "block", "test_verification_failed")
             ELSE IF ~gitV.skip /\ ~gitV.valid
             THEN IF Includes(gitV.missing, "CI not checked") /\ gr.prNumber
                  THEN IF ~ci.passed
                       THEN Exit([d EXCEPT !.gitResults = polled, !.state = fix, !.wrote = TRUE],
                                 "block", "ci_failed")
                       ELSE IF ~gitV2.skip /\ ~gitV2.valid
                       THEN Exit([d EXCEPT !.gitResults = polled, !.state = review,
                                           !.wrote = TRUE],
                                 "block", "git_verification_failed")
                       ELSE V2TasksAndExit([d EXCEPT !.gitResults = polled], fl, t)
                  ELSE Exit([d EXCEPT !.state = review, !.wrote = TRUE],
                            "block", "git_verification_failed")
             ELSE V2TasksAndExit(d, fl, t)
        ELSE V2TasksAndExit(d, fl, t)

\* main of the v2.1 hook; ci is what waitForCI returns if it is called
MainV2(st, mtime, fx, fc, rh, esc, rlm, tr, gr, td, fl, ci, t) ==
    LET d == Disk(st, fx, fc, rh, esc, gr, td)
    IN  IF shouldForceExit(fx).exit
        THEN Exit([d EXCEPT !.forceExit = shouldForceExit(fx).forceExit], "allow", "force_exit")
        ELSE IF shouldForceComplete(fc).exit
        THEN Exit([d EXCEPT !.forceComplete = shouldForceComplete(fc).forceComplete],
                  "allow", "force_complete")
        ELSE IF shouldRalphHandoff(rh).exit
        THEN Exit([d EXCEPT !.ralphHandoff = shouldRalphHandoff(rh).ralphHandoff],
                  "allow", "ralph_handoff")
        ELSE IF esc # NoFile
        THEN Exit(d, "block", "escalation_pending")
        ELSE IF checkRlmCosts(rlm)
        THEN Exit(d, "block", "rlm_cost_limit")
        ELSE IF st # NoFile /\ ~st.complete /\ st.phase # "COMPLETE" /\ st.phase # "SHIP"
        THEN IF isStateStale(st, mtime, t)
             THEN V2Verify(d, st, tr, fl, ci, t)
             ELSE IF checkIterationLimit(st)
             THEN Exit(d, "block", "iteration_limit")
             ELSE LET st1 == [st EXCEPT !.iteration = st.iteration + 1, !.lastActivity = t]
                      d1  == [d EXCEPT !.state = st1, !.wrote = TRUE]
                  IN  IF hasPromptV2(st1.phase)
                      THEN Exit(d1, "block", "phase_prompt")
                      ELSE V2Verify(d1, st1, tr, fl, ci, t)
        ELSE V2Verify(d, st, tr, fl, ci, t)

\* One invocation of the v2.1 hook
StopHookV2 ==
    /\ hook = "v2"
    /\ BelowCap(state)
    /\ \E ci \in CiResults :
         LET r == MainV2(state, stateMtime, forceExit, forceComplete, ralphHandoff,
                         escalation, rlmContext, testResults, gitResults, tasksData,
                         failures, ci, now)
         IN  /\ state'         = r.state
             /\ stateMtime'    = Mtime(hook, stateMtime, r.wrote, now)
             /\ forceExit'     = r.forceExit
             /\ forceComplete' = r.forceComplete
             /\ ralphHandoff'  = r.ralphHandoff
             /\ escalation'    = r.escalation
             /\ gitResults'    = r.gitResults
             /\ decision'      = r.decision
             /\ reason'        = r.reason
    /\ UNCHANGED <<hook, now, testResults, tasksData, failures, rlmContext, transcript>>
    /\ UNCHANGED <<queueVars, shipVars, triageVars, ciVars, lockVars, histVars>>

----------------------------------------------------------------------------
(* The world around the hook: the clock, the worker, the operator *)

\* every step of the world ends the previous invocation's output
Quiet == decision' = "none" /\ reason' = "none"

Tick ==
    /\ now < MaxTicks * TickMs
    /\ now' = now + TickMs
    /\ Quiet
    /\ UNCHANGED <<hook, state, stateMtime, forceExit, forceComplete, ralphHandoff,
                   escalation, testResults, gitResults, tasksData, failures, rlmContext,
                   transcript>>
    /\ UNCHANGED <<queueVars, shipVars, triageVars, ciVars, lockVars, histVars>>

\* the lines the worker (assistant) and the user add to the transcript of a
\* session: the promise of the phase state.json names, the final promise of
\* the session's mode, a tool call, and a user message quoting the final promise
WorkerLines(st) ==
    LET final == IF isQuickMode(st) THEN QUICK_COMPLETE ELSE DEEP_COMPLETE
        own   == IF PHASE_PROMISES(st.phase) = "undefined" THEN {}
                 ELSE {PHASE_PROMISES(st.phase)}
    IN  {Line("assistant", "text", p, "none", TRUE, LineBytes) : p \in own \cup {final}}
        \cup {Line("assistant", "tool_use", "none", "Testing", TRUE, LineBytes),
              Line("user", "text", final, "none", TRUE, LineBytes)}

AppendTranscript ==
    /\ hook = "v4"
    /\ state # NoFile
    /\ Len(transcript) < MaxLog
    /\ \E l \in WorkerLines(state) : transcript' = Append(transcript, l)
    /\ Quiet
    /\ UNCHANGED <<hook, now, state, stateMtime, forceExit, forceComplete, ralphHandoff,
                   escalation, testResults, gitResults, tasksData, failures, rlmContext>>
    /\ UNCHANGED <<queueVars, shipVars, triageVars, ciVars, lockVars, histVars>>

\* prompts of which the REVIEW prompt sends a passing session back to PLAN
NextPhasesBackToPlan(phase) ==
    CASE phase = "PLAN"        -> {"BUILD"}
      [] phase = "BUILD"       -> {"REVIEW"}
      [] phase = "REVIEW"      -> {"PLAN", "FIX"}
      [] phase = "FIX"         -> {"REVIEW"}
      [] phase = "SHIP"        -> {"COMPLETE"}
      [] OTHER                 -> {}

\* the phase the prompt of each phase tells the worker to write next
NextPhases(phase) ==
    CASE phase = "CHALLENGE"   -> {"PLAN", "COMPLETE"}
      [] phase = "RLM_EXPLORE" -> {"PLAN"}
      [] phase = "PLAN"        -> {"BUILD"}
      [] phase = "BUILD"       -> {"REVIEW"}
      [] phase = "REVIEW"      -> {"SHIP", "FIX"}
      [] phase = "FIX"         -> {"REVIEW"}
      [] phase = "SHIP"        -> {"COMPLETE"}
      [] OTHER                 -> {}

\* the worker updates state.json as the phase prompt says
WorkerSetsPhase ==
    /\ state # NoFile
    /\ \E p \in NextPhases(state.phase) :
          state' = [state EXCEPT !.phase = p,
                                 !.complete = IF p = "COMPLETE" /\ state.phase = "SHIP"
                                              THEN TRUE ELSE @]
    /\ stateMtime' = Mtime(hook, stateMtime, TRUE, now)
    /\ Quiet
    /\ UNCHANGED <<hook, now, forceExit, forceComplete, ralphHandoff, escalation,
                   testResults, gitResults, tasksData, failures, rlmContext, transcript>>
    /\ UNCHANGED <<queueVars, shipVars, triageVars, ciVars, lockVars, histVars>>

\* "Force complete: set complete: true in state.json" (Loop Control)
OperatorMarksComplete ==
    /\ state # NoFile /\ ~state.complete
    /\ state' = [state EXCEPT !.complete = TRUE]
    /\ stateMtime' = Mtime(hook, stateMtime, TRUE, now)
    /\ Quiet
    /\ UNCHANGED <<hook, now, forceExit, forceComplete, ralphHandoff, escalation,
                   testResults, gitResults, tasksData, failures, rlmContext, transcript>>
    /\ UNCHANGED <<queueVars, shipVars, triageVars, ciVars, lockVars, histVars>>

\* touch FORCE_EXIT
OperatorTouchesForceExit ==
    /\ ~forceExit /\ ~ralphHandoff
    /\ forceExit' = TRUE
    /\ Quiet
    /\ UNCHANGED <<hook, now, state, stateMtime, forceComplete, ralphHandoff, escalation,
                   testResults, gitResults, tasksData, failures, rlmContext, transcript>>
    /\ UNCHANGED <<queueVars, shipVars, triageVars, ciVars, lockVars, histVars>>

----------------------------------------------------------------------------
(* The session specification *)

\* echo "reason" > FORCE_COMPLETE (the hooks that read it)
OperatorWritesForceComplete ==
    /\ hook # "v4"
    /\ forceComplete = NoFile /\ ~ralphHandoff
    /\ forceComplete' = [reason |-> "work is acceptable"]
    /\ Quiet
    /\ UNCHANGED <<hook, now, state, stateMtime, forceExit, ralphHandoff, escalation,
                   testResults, gitResults, tasksData, failures, rlmContext, transcript>>
    /\ UNCHANGED <<queueVars, shipVars, triageVars, ciVars, lockVars, histVars>>

\* touch RALPH_HANDOFF when the loop is handed to the external orchestrator
WorkerTouchesRalphHandoff ==
    /\ hook # "v4"
    /\ ~ralphHandoff /\ ~forceExit /\ forceComplete = NoFile
    /\ ralphHandoff' = TRUE
    /\ Quiet
    /\ UNCHANGED <<hook, now, state, stateMtime, forceExit, forceComplete, escalation,
                   testResults, gitResults, tasksData, failures, rlmContext, transcript>>
    /\ UNCHANGED <<queueVars, shipVars, triageVars, ciVars, lockVars, histVars>>

\* "To continue: Delete .deep/NEEDS_USER after addressing the issue"; the
\* failure counts of the task are cleared with it
OperatorClearsEscalation ==
    /\ escalation # NoFile
    /\ escalation' = NoFile
    /\ failures' = NoFailures
    /\ Quiet
    /\ UNCHANGED <<hook, now, state, stateMtime, forceExit, forceComplete, ralphHandoff,
                   testResults, gitResults, tasksData, rlmContext, transcript>>
    /\ UNCHANGED <<queueVars, shipVars, triageVars, ciVars, lockVars, histVars>>

----------------------------------------------------------------------------
(* The session specification *)

\* no deep-triage BUILD phase is running
BuildIdle ==
    /\ resultHandler = "none"
    /\ tasksStatus = <<>> /\ agents = <<>> /\ running = <<>> /\ askedUser = <<>>

NoReturn == [returned |-> FALSE]

\* no CI wait is running
CiIdle ==
    /\ ciElapsed = 0 /\ ciPolls = 0 /\ ciResult = NoReturn

NotHeld == [held |-> FALSE]

\* no work item has been added to a backlog, no phase has been entered
NoHistory == added = 0 /\ visitStart = 0

\* no agent lock is in use
LockIdle ==
    /\ lockFile = NoFile /\ lpc = <<>> /\ lheld = <<>>

\* no session is in its SHIP phase
ShipIdle ==
    /\ spc = "idle"
    /\ PUSH_ATTEMPTS = 0 /\ PUSH_SUCCESS = 0 /\ GIT_CONFLICT = 0
    /\ rebasing = "none"
    /\ head = "remote" /\ origin = "remote"
    /\ recoveryBranch = "absent"
    /\ gitConflicts = NoFile

QueueIdle ==
    /\ ShipIdle
    /\ BuildIdle /\ CiIdle /\ LockIdle /\ NoHistory
    /\ tasks = <<>>
    /\ claims = [i \in TaskIds |-> NoClaim]
    /\ wpc = <<>> /\ wseen = <<>> /\ wtask = <<>> /\ wexpires = <<>>
    /\ dateWorks = TRUE
    /\ completedTasks = [i \in TaskIds |-> NoEntry]

AllPass == TestResults(Ran(TRUE), Ran(TRUE), Ran(TRUE), Ran(TRUE), TRUE, 0)

\* the test evidence a session may have on disk
TestEvidence ==
    { NoFile,
      AllPass,
      TestResults(Ran(FALSE), Ran(TRUE), Ran(TRUE), Ran(TRUE), FALSE, 0),
      TestResults(Ran(TRUE), Ran(TRUE), NotRun, Ran(TRUE), FALSE, 0),
      TestResults(Ran(TRUE), NoResult, Ran(TRUE), Ran(TRUE), TRUE, 0),
      TestResults(Ran(TRUE), Ran(TRUE), Ran(TRUE), Ran(TRUE), FALSE, 0),
      TestResults(Ran(TRUE), Ran(TRUE), Ran(TRUE), Ran(TRUE), TRUE, 1) }

\* the publish evidence a session may have on disk
GitEvidence ==
    { NoFile,
      GitResults(TRUE, TRUE, TRUE, TRUE, TRUE, TRUE, TRUE, TRUE),
      GitResults(TRUE, TRUE, TRUE, TRUE, FALSE, FALSE, TRUE, FALSE),
      GitResults(TRUE, TRUE, FALSE, FALSE, FALSE, FALSE, FALSE, FALSE) }

\* the persistent tasks a session may have on disk
TaskFiles ==
    { NoFile,
      TasksData(<<Task(1, "pending", 0)>>, 1),
      TasksData(<<Task(1, "in_progress", 1), Task(2, "pending", 0)>>, 1) }

\* the evidence and task files a session starts with: every kind of test
\* evidence alone, publish evidence beside passing tests, persistent tasks
\* beside passing or absent tests
Scenarios ==
    {<<tr, NoFile, NoFile>> : tr \in TestEvidence}
    \cup {<<AllPass, gr, NoFile>> : gr \in GitEvidence}
    \cup {<<tr, NoFile, td>> : tr \in {NoFile, AllPass}, td \in TaskFiles}

Init ==
    /\ hook \in {"v4", "v2", "enhanced"}
    /\ now = 0
    /\ \/ state = NewState("internal", MaxCeiling, "PLAN")
       \/ hook = "v4" /\ state = NewState("external", MaxCeiling, "PLAN")
       \/ hook = "v4" /\ state = NewState("quick", QUICK_MAX_ITERATIONS, NoPhase)
    /\ stateMtime = 0
    /\ forceExit = FALSE
    /\ forceComplete = NoFile
    /\ ralphHandoff = FALSE
    /\ escalation = NoFile
    /\ \E sc \in IF hook = "v4" THEN {<<NoFile, NoFile, NoFile>>} ELSE Scenarios :
          /\ testResults = sc[1]
          /\ gitResults  = sc[2]
          /\ tasksData   = sc[3]
    /\ failures \in IF hook = "v2" /\ tasksData # NoFile /\ testResults = NoFile
                    THEN {NoFailures, [NoFailures EXCEPT ![1] = MAX_CONSECUTIVE_FAILURES]}
                    ELSE {NoFailures}
    /\ rlmContext \in IF hook = "v2" /\ tasksData = NoFile /\ testResults = NoFile
                      THEN {NoFile, [sub_calls |-> RLM_SUB_CALL_LIMIT]}
                      ELSE {NoFile}
    /\ transcript = <<>>
    /\ decision = "none"
    /\ reason = "none"
    /\ QueueIdle

Next ==
    \/ StopHookV4
    \/ StopHookV2
    \/ StopHookEnhanced
    \/ Tick
    \/ AppendTranscript
    \/ WorkerSetsPhase
    \/ OperatorMarksComplete
    \/ OperatorTouchesForceExit
    \/ OperatorWritesForceComplete
    \/ WorkerTouchesRalphHandoff
    \/ OperatorClearsEscalation

Spec == Init /\ [][Next]_vars

----------------------------------------------------------------------------
(* deep-execute: the claim-based task queue (part_001)                     *)
(* A worker is one /deep execute session following the Execution Flow.    *)
(* Each step of the flow is one tool call, so workers interleave between  *)
(* steps.                                                                  *)

MaxWorkers    == 2   \* concurrent /deep execute sessions
MaxQueueTicks == 1   \* clock ticks of the queue model
Workers       == 1..MaxWorkers

QueueTickMs  == 31 * 60 * 1000     \* one clock tick of the queue model: 31 minutes
CLAIM_TTL_MS == 30 * 60 * 1000     \* "+30 minutes"
MAX_TASK_ATTEMPTS == 3             \* "If Attempts >= 3"

\* an entry of tasks.md; status "absent": no such block in the file
QueueTask(status, priority, attempts) ==
    [status |-> status, priority |-> priority, attempts |-> attempts]
NoQueueTask == QueueTask("absent", "low", 0)

\* "Priority order": high first, then medium, then low
PriorityRank(p) == CASE p = "high" -> 0 [] p = "medium" -> 1 [] OTHER -> 2

\* an entry of claims.json
Claim(w, t, expires) == [claimedBy |-> w, claimedAt |-> t, expiresAt |-> expires]

\* the instant the fixed date of the EXPIRES fallback names: not after the
\* queue's start
FALLBACK_EXPIRES == 0

\* EXPIRES: date -d "+30 minutes", else date -v+30M, else the fixed date
expiresAt(t, dateOk) == IF dateOk THEN t + CLAIM_TTL_MS ELSE FALLBACK_EXPIRES

\* a lease of an hour instead of 30 minutes
claimExpiredAfterHour(c, t) == t - c.claimedAt > 2 * CLAIM_TTL_MS

\* "If claimed, check if expired (>30 min old)"
claimExpired(c, t) == t - c.claimedAt > CLAIM_TTL_MS

\* Step 2: "If unclaimed or expired, this is our target"; Step 6: "Filter out
\* tasks with Attempts >= 3"
eligibleTasks(ts, cl, t) ==
    { i \in TaskIds : /\ ts[i].status = "todo"
                      /\ ts[i].attempts < MAX_TASK_ATTEMPTS
                      /\ IF cl[i] = NoClaim THEN TRUE ELSE claimExpired(cl[i], t) }

\* the first eligible task of the highest priority, in document order
nextTask(ts, cl, t) ==
    LET el == eligibleTasks(ts, cl, t)
    IN  IF el = {} THEN NoTask
        ELSE CHOOSE i \in el :
               \A j \in el : \/ PriorityRank(ts[i].priority) < PriorityRank(ts[j].priority)
                             \/ /\ PriorityRank(ts[i].priority) = PriorityRank(ts[j].priority)
                                /\ i <= j

\* Step 2: Find Next Unclaimed Task (reads tasks.md and claims.json); with no
\* eligible task the auto-loop exits
FindNextUnclaimed(w) ==
    /\ hook = "queue"
    /\ wpc[w] = "find"
    /\ LET target == nextTask(tasks, claims, now)
       IN  /\ wtask' = [wtask EXCEPT ![w] = target]
           /\ wpc' = [wpc EXCEPT ![w] = IF target = NoTask THEN "exit" ELSE "claim"]
    /\ UNCHANGED <<tasks, claims, wseen, wexpires, dateWorks, completedTasks>>
    /\ UNCHANGED <<hookVars, shipVars, triageVars, ciVars, lockVars, histVars>>

\* Step 3, first command: CLAIMS=$(cat .deep/claims.json)
ReadClaims(w) ==
    /\ hook = "queue"
    /\ wpc[w] = "claim"
    /\ wseen' = [wseen EXCEPT ![w] = claims]
    /\ wpc' = [wpc EXCEPT ![w] = "write"]
    /\ UNCHANGED <<tasks, claims, wtask, wexpires, dateWorks, completedTasks>>
    /\ UNCHANGED <<hookVars, shipVars, triageVars, ciVars, lockVars, histVars>>

\* Step 3, "Update claims.json": the claims read, with the worker's entry
\* added, become the file; the worker then executes the task (Step 4)
WriteClaim(w) ==
    /\ hook = "queue"
    /\ wpc[w] = "write"
    /\ claims' = [wseen[w] EXCEPT ![wtask[w]] = Claim(w, now, expiresAt(now, dateWorks))]
    /\ wexpires' = [wexpires EXCEPT ![w] = expiresAt(now, dateWorks)]
    /\ wpc' = [wpc EXCEPT ![w] = "execute"]
    /\ wseen' = [wseen EXCEPT ![w] = [i \in TaskIds |-> NoClaim]]
    /\ UNCHANGED <<tasks, wtask, dateWorks, completedTasks>>
    /\ UNCHANGED <<hookVars, shipVars, triageVars, ciVars, lockVars, histVars>>

\* Step 5, On Success: the task leaves tasks.md for completed-tasks.md and
\* the claim is removed; Step 6 returns to Step 2
TaskSucceeds(w) ==
    /\ hook = "queue"
    /\ wpc[w] = "execute"
    /\ tasks' = [tasks EXCEPT ![wtask[w]].status = "done"]
    /\ claims' = [claims EXCEPT ![wtask[w]] = NoClaim]
    /\ wpc' = [wpc EXCEPT ![w] = "find"]
    /\ wtask' = [wtask EXCEPT ![w] = NoTask]
    /\ wexpires' = [wexpires EXCEPT ![w] = 0]
    /\ UNCHANGED <<wseen, dateWorks>>
    /\ completedTasks' = [completedTasks EXCEPT ![wtask[w]] = LedgerEntry("done", w, "local")]
    /\ UNCHANGED <<hookVars, shipVars, triageVars, ciVars, lockVars, histVars>>

\* Step 5, On Failure: Attempts N+1, the claim is removed, at 3 attempts the
\* task is moved to completed-tasks.md as SKIPPED; Step 6 returns to Step 2
TaskFails(w) ==
    /\ hook = "queue"
    /\ wpc[w] = "execute"
    /\ LET t == wtask[w]
           n == tasks[t].attempts + 1
       IN  \* the "## [ ] task-XXX" block is edited only while it is in tasks.md
           tasks' = IF tasks[t].status = "todo"
                    THEN [tasks EXCEPT ![t].attempts = n,
                                       ![t].status = IF n >= MAX_TASK_ATTEMPTS
                                                     THEN "skipped" ELSE @]
                    ELSE tasks
    /\ claims' = [claims EXCEPT ![wtask[w]] = NoClaim]
    /\ wpc' = [wpc EXCEPT ![w] = "find"]
    /\ wtask' = [wtask EXCEPT ![w] = NoTask]
    /\ wexpires' = [wexpires EXCEPT ![w] = 0]
    /\ UNCHANGED <<wseen, dateWorks>>
    /\ completedTasks' = IF tasks[wtask[w]].status = "todo"
                             /\ tasks[wtask[w]].attempts + 1 >= MAX_TASK_ATTEMPTS
                          THEN [completedTasks EXCEPT ![wtask[w]] = LedgerEntry("skipped", w, "none")]
                          ELSE completedTasks
    /\ UNCHANGED <<hookVars, shipVars, triageVars, ciVars, lockVars, histVars>>

\* the session of a worker ends while it executes its task (crash, closed
\* terminal): nothing is released
WorkerCrashes(w) ==
    /\ hook = "queue"
    /\ wpc[w] = "execute"
    /\ wpc' = [wpc EXCEPT ![w] = "crashed"]
    /\ UNCHANGED <<tasks, claims, wseen, wtask, wexpires, dateWorks, completedTasks>>
    /\ UNCHANGED <<hookVars, shipVars, triageVars, ciVars, lockVars, histVars>>

\* time passes for the queue
QueueTick ==
    /\ hook = "queue"
    /\ now < MaxQueueTicks * QueueTickMs
    /\ now' = now + QueueTickMs
    /\ UNCHANGED <<hook, state, stateMtime, forceExit, forceComplete, ralphHandoff,
                   escalation, testResults, gitResults, tasksData, failures, rlmContext,
                   transcript, decision, reason>>
    /\ UNCHANGED <<queueVars, shipVars, triageVars, ciVars, lockVars, histVars>>

\* the worker holds a claim it wrote that has not expired, on the task it executes
holdsClaim(w, i) == wpc[w] = "execute" /\ wtask[w] = i /\ now <= wexpires[w]

\* the backlogs a queue starts with: one item that failed once, or two items
\* of differing priority that failed twice each
OneItemBacklog ==
    [i \in TaskIds |-> IF i = 1 THEN QueueTask("todo", "medium", 1) ELSE NoQueueTask]
TwoItemBacklog ==
    [i \in TaskIds |-> IF i = 1 THEN QueueTask("todo", "low", MAX_TASK_ATTEMPTS - 1)
                       ELSE IF i = 2 THEN QueueTask("todo", "high", MAX_TASK_ATTEMPTS - 1)
                       ELSE NoQueueTask]
Backlogs == {OneItemBacklog, TwoItemBacklog}

InitQueue ==
    /\ hook = "queue"
    /\ ShipIdle
    /\ BuildIdle /\ CiIdle /\ LockIdle /\ NoHistory
    /\ now = 0
    /\ state = NoFile /\ stateMtime = 0
    /\ forceExit = FALSE /\ forceComplete = NoFile /\ ralphHandoff = FALSE
    /\ escalation = NoFile
    /\ testResults = NoFile /\ gitResults = NoFile /\ tasksData = NoFile
    /\ failures = NoFailures /\ rlmContext = NoFile
    /\ transcript = <<>>
    /\ decision = "none" /\ reason = "none"
    /\ tasks \in Backlogs
    /\ claims = [i \in TaskIds |-> NoClaim]
    /\ wpc = [w \in Workers |-> "find"]
    /\ wseen = [w \in Workers |-> [i \in TaskIds |-> NoClaim]]
    /\ wtask = [w \in Workers |-> NoTask]
    /\ wexpires = [w \in Workers |-> 0]
    /\ dateWorks \in (IF tasks = OneItemBacklog THEN BOOLEAN ELSE {TRUE})
    /\ completedTasks = [i \in TaskIds |-> NoEntry]

NextQueue ==
    \/ \E w \in Workers : FindNextUnclaimed(w)
    \/ \E w \in Workers : ReadClaims(w)
    \/ \E w \in Workers : WriteClaim(w)
    \/ \E w \in Workers : TaskSucceeds(w)
    \/ \E w \in Workers : TaskFails(w)
    \/ \E w \in Workers : WorkerCrashes(w)
    \/ QueueTick

SpecQueue == InitQueue /\ [][NextQueue]_vars

----------------------------------------------------------------------------
(* Properties *)

\* the step is a hook invocation (every other step clears the decision)
HookStep == decision' # "none"

\* the session record claims completion
ClaimsCompletion(st) == st # NoFile /\ (st.complete \/ st.phase = "COMPLETE")

\* no operator or hand-off marker is on disk
NoMarkers == ~forceExit /\ forceComplete = NoFile /\ ~ralphHandoff

\* C1: at-most-one claim: no two workers hold a non-expired claim on the same
\* work item at the same time
C1_AtMostOneClaim ==
    \A i \in TaskIds : \A w1 \in Workers : \A w2 \in Workers :
        holdsClaim(w1, i) /\ holdsClaim(w2, i) => w1 = w2

\* C2: the iteration ceiling is a hard stop: an invocation that finds an
\* incomplete session with iteration >= ceiling (and no marker, escalation
\* record, cost record or persistent task on disk) does not return block
C2_CeilingIsHardStop ==
    [][ ( /\ HookStep
          /\ state # NoFile /\ state.active
          /\ ~ClaimsCompletion(state)
          /\ NoMarkers
          /\ escalation = NoFile /\ rlmContext = NoFile /\ tasksData = NoFile
          /\ state.iteration >= state.maxIterations )
        => decision' # "block" ]_vars

\* a category of the evidence record ran and passed
categoryPassed(r) == IF r = NoResult THEN FALSE ELSE r.ran /\ r.passed

\* the evidence record exists and tests, types, lint and build each ran and passed
EvidencePasses(tr) ==
    IF tr = NoFile THEN FALSE
    ELSE \A c \in Range(Categories) : categoryPassed(tr.results[c])

\* C3: a verification failure never reaches the terminal state: an invocation
\* that returns allow for an active session claiming completion, with no marker
\* to consume, has found evidence in which all four categories ran and passed
C3_AllowOnlyOnEvidence ==
    [][ ( /\ HookStep
          /\ decision' = "allow"
          /\ ClaimsCompletion(state) /\ state.active
          /\ NoMarkers )
        => EvidencePasses(testResults) ]_vars

\* the gate's effect: the record is persisted with phase REVIEW and
\* complete = false and the invocation blocks
ForcedBackToReview ==
    /\ decision' = "block"
    /\ state' # NoFile
    /\ state'.phase = "REVIEW"
    /\ ~state'.complete

\* C4 as stated: whenever the record claims completion and the test evidence
\* is absent, not run or failing, the invocation of the v2.1 or enhanced hook
\* persists phase REVIEW, complete = false and blocks
C4_GateResetsAlways ==
    [][ ( /\ HookStep
          /\ hook \in {"v2", "enhanced"}
          /\ ClaimsCompletion(state)
          /\ ~EvidencePasses(testResults) )
        => ForcedBackToReview ]_vars

\* C4 amended: the same, provided no abort, force-complete or hand-off marker
\* is on disk and (v2.1) no escalation record or cost-limit record stops the
\* invocation before the gate
C4_GateResetsUnlessMarker ==
    [][ ( /\ HookStep
          /\ hook \in {"v2", "enhanced"}
          /\ ClaimsCompletion(state)
          /\ ~EvidencePasses(testResults)
          /\ NoMarkers
          /\ escalation = NoFile
          /\ IF rlmContext = NoFile THEN TRUE
             ELSE rlmContext.sub_calls < RLM_SUB_CALL_LIMIT )
        => ForcedBackToReview ]_vars

\* a gate failure on present but failing evidence has just reset the record
C4_Witness ==
    /\ hook \in {"v2", "enhanced"}
    /\ decision = "block" /\ reason = "test_verification_failed"
    /\ testResults # NoFile /\ ~EvidencePasses(testResults)
    /\ state # NoFile /\ state.phase = "REVIEW" /\ ~state.complete

\* C5: the abort marker is checked first: an invocation that finds it returns
\* allow whatever else is on disk, writes nothing to the session record and
\* leaves no marker behind
C5_AbortMarkerFirst ==
    [][ (HookStep /\ forceExit)
        => /\ decision' = "allow"
           /\ ~forceExit'
           /\ state' = state ]_vars

\* the abort marker has just been consumed while an escalation was pending
\* and the session was at its ceiling
C5_Witness ==
    /\ decision = "allow" /\ reason = "force_exit"
    /\ ~forceExit
    /\ escalation # NoFile
    /\ state # NoFile /\ state.iteration >= state.maxIterations

\* the final sentinel occurs nowhere in the transcript
NoFinalSentinel == \A i \in 1..Len(transcript) : transcript[i].promise # DEEP_COMPLETE

\* C6: while-true loop: an invocation of the v4.0 hook for an active
\* internal-mode session that is not complete, not stale, below its ceiling,
\* with no marker and no DEEP_COMPLETE in the transcript, returns block
C6_BlocksUntilDeepComplete ==
    [][ ( /\ HookStep
          /\ hook = "v4"
          /\ state # NoFile /\ state.active /\ state.mode = "internal"
          /\ ~ClaimsCompletion(state)
          /\ now - state.startedAt <= STALE_THRESHOLD_MS
          /\ now - state.lastActivity <= STALE_THRESHOLD_MS
          /\ state.iteration < state.maxIterations
          /\ NoMarkers
          /\ NoFinalSentinel )
        => decision' = "block" ]_vars

\* nothing happened to the session for more than 8 hours, by every clock the
\* hooks read
StaleByEveryMeasure ==
    /\ now - state.startedAt > STALE_THRESHOLD_MS
    /\ now - state.lastActivity > STALE_THRESHOLD_MS
    /\ now - stateMtime > STALE_THRESHOLD_MS

\* C7: staleness halts the loop: an invocation that finds an incomplete stale
\* session and no marker returns allow, whatever else is on disk
C7_StaleAllows ==
    [][ ( /\ HookStep
          /\ state # NoFile /\ state.active
          /\ ~ClaimsCompletion(state)
          /\ StaleByEveryMeasure
          /\ NoMarkers )
        => decision' = "allow" ]_vars

\* C8: staleness is measured from the last activity: no invocation halts a
\* session for staleness whose last activity is at most 8 hours old
C8_StaleFromLastActivity ==
    [][ (HookStep /\ reason' = "stale")
        => now - state.lastActivity > STALE_THRESHOLD_MS ]_vars

\* C9: an invocation that halts because the session is stale leaves the
\* session record as it found it
C9_StaleHaltWritesNothing ==
    [][ (HookStep /\ reason' = "stale") => state' = state ]_vars

\* complete = true implies phase = COMPLETE
SessionInvariant(st) == IF st = NoFile THEN TRUE ELSE (st.complete => st.phase = "COMPLETE")

\* C10: every record the hook persists satisfies the session invariant (the
\* record it read did)
C10_CompleteImpliesPhase ==
    [][ (HookStep /\ SessionInvariant(state) /\ state' # state)
        => SessionInvariant(state') ]_vars

\* C11: phases run in state-machine order: a hook invocation moves the session
\* record to phase COMPLETE only from SHIP
C11_CompleteOnlyFromShip ==
    [][ ( /\ HookStep
          /\ state # NoFile /\ state' # NoFile
          /\ state.phase # "COMPLETE" /\ state'.phase = "COMPLETE" )
        => state.phase = "SHIP" ]_vars

\* CHALLENGE < PLAN < BUILD < REVIEW < FIX < SHIP < COMPLETE
PhaseIndex(phase) ==
    CASE phase = "CHALLENGE" -> 0
      [] phase = "PLAN"      -> 1
      [] phase = "BUILD"     -> 2
      [] phase = "REVIEW"    -> 3
      [] phase = "FIX"       -> 4
      [] phase = "SHIP"      -> 5
      [] phase = "COMPLETE"  -> 6
      [] OTHER               -> 0

\* the step lowers the phase index of the session record
PhaseDecreases ==
    /\ state # NoFile /\ state' # NoFile
    /\ PhaseIndex(state'.phase) < PhaseIndex(state.phase)

\* the step is an invocation in which the Verification Gate (test evidence,
\* publish evidence or CI) failed
GateFailureStep ==
    /\ HookStep
    /\ reason' \in {"test_verification_failed", "git_verification_failed", "ci_failed"}

\* C12 as stated: absent a Verification Gate failure the phase index never
\* decreases
C12_PhaseMonotonic ==
    [][ PhaseDecreases => GateFailureStep ]_vars

\* C12 amended: absent a Verification Gate failure the phase index decreases
\* only by the FIX -> REVIEW return of the review cycle
C12_PhaseMonotonicButFixReview ==
    [][ PhaseDecreases
        => \/ GateFailureStep
           \/ state.phase = "FIX" /\ state'.phase = "REVIEW" ]_vars

\* a session that went PLAN, BUILD, REVIEW, SHIP and was blocked in SHIP
C12_Witness ==
    /\ state # NoFile /\ state.phase = "SHIP" /\ ~state.complete
    /\ decision = "block" /\ state.iteration >= 1

\* C13: the iteration counter grows by exactly 1 on every invocation that
\* blocks an active session below its ceiling (no marker, escalation record,
\* cost record or persistent task on disk), gate failures included
C13_IterationPlusOne ==
    [][ ( /\ HookStep
          /\ decision' = "block"
          /\ state # NoFile /\ state.active /\ state' # NoFile
          /\ NoMarkers
          /\ escalation = NoFile /\ rlmContext = NoFile /\ tasksData = NoFile
          /\ state.iteration < state.maxIterations )
        => state'.iteration = state.iteration + 1 ]_vars

\* a step that writes a claim entry for item i into claims.json
ClaimWritten(i) == claims'[i] # claims[i] /\ claims'[i] # NoClaim

\* a step after which item i is held by another session than before
TakenOver(i) ==
    /\ ClaimWritten(i)
    /\ claims[i] # NoClaim
    /\ claims'[i].claimedBy # claims[i].claimedBy

\* C14: every claim acquired at time t is recorded with expiresAt = t + 30
\* minutes, and a different worker takes a claimed item over only when
\* now > t + 30 minutes
C14_LeaseExpiry ==
    [][ \A i \in TaskIds :
          /\ ClaimWritten(i) =>
                claims'[i].expiresAt = claims'[i].claimedAt + CLAIM_TTL_MS
          /\ TakenOver(i) => now > claims[i].claimedAt + CLAIM_TTL_MS ]_vars

\* the attempts on item t that have failed or are under way in a live session
\* other than w
attemptsSoFar(t, w) ==
    tasks[t].attempts
      + Cardinality({ v \in Workers \ {w} : wpc[v] = "execute" /\ wtask[v] = t })

\* a failure of a backlog item adds exactly 1 to Attempts, removes the claim,
\* leaves the item selectable below 3 attempts and marks it skipped at 3
FailureReleases(w) ==
    LET t == wtask[w]
    IN  (TaskFails(w) /\ tasks[t].status = "todo") =>
           /\ tasks'[t].attempts = tasks[t].attempts + 1
           /\ claims'[t] = NoClaim
           /\ tasks'[t].attempts < MAX_TASK_ATTEMPTS => t \in eligibleTasks(tasks', claims', now')
           /\ tasks'[t].attempts >= MAX_TASK_ATTEMPTS => tasks'[t].status = "skipped"

\* the attempt a session starts when it writes its claim is at most the third
NoFourthAttempt(w) ==
    WriteClaim(w) => attemptsSoFar(wtask[w], w) < MAX_TASK_ATTEMPTS

\* C16: each task failure increments the attempt count by exactly 1 and removes
\* the claim so the item is selectable again; at 3 attempts the item is marked
\* skipped, and no worker starts a fourth attempt on it
C16_ReleaseOnFailure ==
    [][ \A w \in Workers : FailureReleases(w) /\ NoFourthAttempt(w) ]_vars

\* a session that is neither crashed nor finished with the queue
live(w) == wpc[w] \notin {"crashed", "exit"}

\* Step 6, "NEVER exit after single task": a live session keeps taking steps,
\* and the task it executes ends (in success, in failure, or with the session)
QueueFairness ==
    \A w \in Workers :
        /\ WF_vars(FindNextUnclaimed(w))
        /\ WF_vars(ReadClaims(w))
        /\ WF_vars(WriteClaim(w))
        /\ WF_vars(TaskSucceeds(w) \/ TaskFails(w) \/ WorkerCrashes(w))

\* item i is in the backlog, its claim belongs to crashed session w, the lease
\* has passed, and no live session works on it
Abandoned(i, w) ==
    /\ wpc[w] = "crashed" /\ wtask[w] = i
    /\ claims[i] # NoClaim /\ claims[i].claimedBy = w
    /\ now > claims[i].claimedAt + CLAIM_TTL_MS
    /\ tasks[i].status = "todo" /\ tasks[i].attempts < MAX_TASK_ATTEMPTS
    /\ \A v \in Workers : live(v) => wtask[v] # i

\* claims.json names a live session that executes item i
ClaimedByLive(i) ==
    \E v \in Workers :
        /\ wpc[v] = "execute" /\ wtask[v] = i
        /\ claims[i] # NoClaim /\ claims[i].claimedBy = v

\* C15: an item whose holder crashed is claimable once the 30-minute lease has
\* passed, and while some session is still executing the queue it is
\* eventually claimed by a live session
C15_CrashSurvival ==
    /\ [](\A i \in TaskIds : \A w \in Workers :
             Abandoned(i, w) => i \in eligibleTasks(tasks, claims, now))
    /\ \A i \in TaskIds :
          ((\E w \in Workers : Abandoned(i, w)) /\ \E v \in Workers : live(v))
             ~> (ClaimedByLive(i) \/ \A v \in Workers : ~live(v))

C15_Witness ==
    \E i \in TaskIds : \E w \in Workers :
        /\ wpc[w] = "crashed" /\ wtask[w] = i
        /\ now > CLAIM_TTL_MS
        /\ ClaimedByLive(i)

\* the queue just after some session claimed the first task of the backlog at
\* time 0 and ended
InitCrashed ==
    /\ hook = "queue"
    /\ ShipIdle
    /\ BuildIdle /\ CiIdle /\ LockIdle /\ NoHistory
    /\ now = 0
    /\ state = NoFile /\ stateMtime = 0
    /\ forceExit = FALSE /\ forceComplete = NoFile /\ ralphHandoff = FALSE
    /\ escalation = NoFile
    /\ testResults = NoFile /\ gitResults = NoFile /\ tasksData = NoFile
    /\ failures = NoFailures /\ rlmContext = NoFile
    /\ transcript = <<>>
    /\ decision = "none" /\ reason = "none"
    /\ tasks \in Backlogs
    /\ dateWorks \in (IF tasks = OneItemBacklog THEN BOOLEAN ELSE {TRUE})
    /\ completedTasks = [i \in TaskIds |-> NoEntry]
    /\ \E c \in Workers :
         LET first == nextTask(tasks, [i \in TaskIds |-> NoClaim], now)
         IN  /\ claims = [i \in TaskIds |->
                            IF i = first THEN Claim(c, now, expiresAt(now, dateWorks))
                            ELSE NoClaim]
             /\ wpc = [w \in Workers |-> IF w = c THEN "crashed" ELSE "find"]
             /\ wtask = [w \in Workers |-> IF w = c THEN first ELSE NoTask]
             /\ wexpires = [w \in Workers |->
                              IF w = c THEN expiresAt(now, dateWorks) ELSE 0]
    /\ wseen = [w \in Workers |-> [i \in TaskIds |-> NoClaim]]

SpecCrashed == InitCrashed /\ [][NextQueue]_vars /\ QueueFairness

----------------------------------------------------------------------------
\* /deep execute, 4e SHIP phase: push with conflict handling, and Step 5
\* completion handling, of one session that holds the claim on one task

MAX_PUSH_ATTEMPTS == 3

shipper  == 1     \* the session
shipTask == 1     \* the task it has implemented and committed

\* while [ $PUSH_ATTEMPTS -lt $MAX_PUSH_ATTEMPTS ] && [ $PUSH_SUCCESS -eq 0 ]
loopContinuesOneMore(attempts, success) ==
    attempts <= MAX_PUSH_ATTEMPTS /\ success = 0

loopContinues(attempts, success) ==
    attempts < MAX_PUSH_ATTEMPTS /\ success = 0

\* how a rejected push can continue: git rebase origin/$BRANCH succeeds, stops
\* on unmerged files, or fails otherwise
RebaseResults == {"clean", "conflict", "error"}

\* one pass of the loop body up to the result of the rebase
PushAttempt ==
    /\ hook = "ship"
    /\ spc = "push"
    /\ loopContinues(PUSH_ATTEMPTS, PUSH_SUCCESS)
    /\ PUSH_ATTEMPTS' = PUSH_ATTEMPTS + 1
    /\ \/ \* git push origin HEAD succeeds
          /\ PUSH_SUCCESS' = 1
          /\ origin' = head
          /\ UNCHANGED <<spc, head, rebasing>>
       \/ \* push rejected, git fetch origin, git rebase origin/$BRANCH
          \E r \in RebaseResults :
             /\ origin' = "remote"
             /\ head' = IF r = "clean" THEN "rebased" ELSE head
             /\ rebasing' = IF r = "clean" THEN "none" ELSE r
             /\ spc' = IF r = "clean" THEN "push" ELSE "diagnose"
             /\ UNCHANGED PUSH_SUCCESS
    /\ UNCHANGED <<GIT_CONFLICT, recoveryBranch, gitConflicts>>
    /\ UNCHANGED <<hookVars, queueVars, triageVars, ciVars, lockVars, histVars>>

\* "Rebase failed - check if it's a conflict": git diff --diff-filter=U, then
\* git rebase --abort; a conflict sets GIT_CONFLICT and breaks the loop
RebaseFailed ==
    /\ hook = "ship"
    /\ spc = "diagnose"
    /\ rebasing' = "none"
    /\ IF rebasing = "conflict"
       THEN GIT_CONFLICT' = 1 /\ spc' = "outcome"
       ELSE GIT_CONFLICT' = GIT_CONFLICT /\ spc' = "push"
    /\ UNCHANGED <<PUSH_ATTEMPTS, PUSH_SUCCESS, head, origin, recoveryBranch, gitConflicts>>
    /\ UNCHANGED <<hookVars, queueVars, triageVars, ciVars, lockVars, histVars>>

\* the while condition is false: done
LoopEnds ==
    /\ hook = "ship"
    /\ spc = "push"
    /\ ~loopContinues(PUSH_ATTEMPTS, PUSH_SUCCESS)
    /\ spc' = "outcome"
    /\ UNCHANGED <<PUSH_ATTEMPTS, PUSH_SUCCESS, GIT_CONFLICT, rebasing, head, origin,
                   recoveryBranch, gitConflicts>>
    /\ UNCHANGED <<hookVars, queueVars, triageVars, ciVars, lockVars, histVars>>

\* the session is back at Step 2 without a task
backToQueue ==
    /\ wpc' = [wpc EXCEPT ![shipper] = "find"]
    /\ wtask' = [wtask EXCEPT ![shipper] = NoTask]
    /\ wexpires' = [wexpires EXCEPT ![shipper] = 0]

\* "Max attempts exceeded | Mark task as push-failed, release claim"
pushFailedTask(t) == [t EXCEPT !.status = "push-failed"]

\* 4. Handle push outcomes
HandlePushOutcome ==
    /\ hook = "ship"
    /\ spc = "outcome"
    /\ IF PUSH_SUCCESS = 1
       THEN /\ spc' = "success"
            /\ UNCHANGED queueVars
       ELSE IF GIT_CONFLICT = 1
       THEN /\ spc' = "record"
            /\ UNCHANGED queueVars
       ELSE /\ spc' = "next"
            /\ tasks' = [tasks EXCEPT ![shipTask] = pushFailedTask(@)]
            /\ claims' = [claims EXCEPT ![shipTask] = NoClaim]
            /\ backToQueue
            /\ UNCHANGED <<wseen, dateWorks, completedTasks>>
    /\ UNCHANGED <<PUSH_ATTEMPTS, PUSH_SUCCESS, GIT_CONFLICT, rebasing, head, origin,
                   recoveryBranch, gitConflicts>>
    /\ UNCHANGED <<hookVars, triageVars, ciVars, lockVars, histVars>>

\* Step 5, On Success: the task leaves tasks.md, its entry leaves
\* git-conflicts.json, the claim is removed
ShipSucceeds ==
    /\ hook = "ship"
    /\ spc = "success"
    /\ spc' = "next"
    /\ tasks' = [tasks EXCEPT ![shipTask].status = "done"]
    /\ gitConflicts' = NoFile
    /\ claims' = [claims EXCEPT ![shipTask] = NoClaim]
    /\ backToQueue
    /\ UNCHANGED <<wseen, dateWorks>>
    /\ completedTasks' = [completedTasks EXCEPT ![shipTask] = LedgerEntry("done", shipper, COMMIT_SHA(head))]
    /\ UNCHANGED <<PUSH_ATTEMPTS, PUSH_SUCCESS, GIT_CONFLICT, rebasing, head, origin,
                   recoveryBranch>>
    /\ UNCHANGED <<hookVars, triageVars, ciVars, lockVars, histVars>>

\* the entry of git-conflicts.json
ConflictRecord(session, localCommit, remoteCommit) ==
    [session |-> session, localCommit |-> localCommit, remoteCommit |-> remoteCommit]

\* Step 5, On Git-Blocked, 1. Record conflict in .deep/git-conflicts.json
RecordConflict ==
    /\ hook = "ship"
    /\ spc = "record"
    /\ gitConflicts' = ConflictRecord(shipper, head, origin)
    /\ spc' = "mark"
    /\ UNCHANGED <<PUSH_ATTEMPTS, PUSH_SUCCESS, GIT_CONFLICT, rebasing, head, origin,
                   recoveryBranch>>
    /\ UNCHANGED <<hookVars, queueVars, triageVars, ciVars, lockVars, histVars>>

\* 2. Update task in tasks.md: Attempts {N}, Status git-blocked; the variant
\* counts the conflict as an attempt
gitBlockedTaskCounted(t) == [t EXCEPT !.status = "git-blocked", !.attempts = @ + 1]

gitBlockedTask(t) == [t EXCEPT !.status = "git-blocked"]

MarkGitBlocked ==
    /\ hook = "ship"
    /\ spc = "mark"
    /\ tasks' = [tasks EXCEPT ![shipTask] = gitBlockedTask(@)]
    /\ spc' = "release"
    /\ UNCHANGED <<claims, wpc, wseen, wtask, wexpires, dateWorks, completedTasks>>
    /\ UNCHANGED <<PUSH_ATTEMPTS, PUSH_SUCCESS, GIT_CONFLICT, rebasing, head, origin,
                   recoveryBranch, gitConflicts>>
    /\ UNCHANGED <<hookVars, triageVars, ciVars, lockVars, histVars>>

\* 3. Release claim from claims.json
ReleaseClaim ==
    /\ hook = "ship"
    /\ spc = "release"
    /\ claims' = [claims EXCEPT ![shipTask] = NoClaim]
    /\ spc' = "stash"
    /\ UNCHANGED <<tasks, wpc, wseen, wtask, wexpires, dateWorks, completedTasks>>
    /\ UNCHANGED <<PUSH_ATTEMPTS, PUSH_SUCCESS, GIT_CONFLICT, rebasing, head, origin,
                   recoveryBranch, gitConflicts>>
    /\ UNCHANGED <<hookVars, triageVars, ciVars, lockVars, histVars>>

\* 4. git checkout -b deep-recovery/task-XXX-{session8}; git checkout -
CreateRecoveryBranch ==
    /\ hook = "ship"
    /\ spc = "stash"
    /\ recoveryBranch' = head
    /\ spc' = "reset"
    /\ UNCHANGED <<PUSH_ATTEMPTS, PUSH_SUCCESS, GIT_CONFLICT, rebasing, head, origin,
                   gitConflicts>>
    /\ UNCHANGED <<hookVars, queueVars, triageVars, ciVars, lockVars, histVars>>

\* 4. git reset --hard origin/{branch}; 5. Continue to next task
ResetHard ==
    /\ hook = "ship"
    /\ spc = "reset"
    /\ head' = origin
    /\ spc' = "next"
    /\ backToQueue
    /\ UNCHANGED <<tasks, claims, wseen, dateWorks, completedTasks>>
    /\ UNCHANGED <<PUSH_ATTEMPTS, PUSH_SUCCESS, GIT_CONFLICT, rebasing, origin,
                   recoveryBranch, gitConflicts>>
    /\ UNCHANGED <<hookVars, triageVars, ciVars, lockVars, histVars>>

\* the session ends in the middle of the SHIP phase
ShipCrashes ==
    /\ hook = "ship"
    /\ spc \notin {"idle", "next", "crashed"}
    /\ spc' = "crashed"
    /\ wpc' = [wpc EXCEPT ![shipper] = "crashed"]
    /\ UNCHANGED <<tasks, claims, wseen, wtask, wexpires, dateWorks, completedTasks>>
    /\ UNCHANGED <<PUSH_ATTEMPTS, PUSH_SUCCESS, GIT_CONFLICT, rebasing, head, origin,
                   recoveryBranch, gitConflicts>>
    /\ UNCHANGED <<hookVars, triageVars, ciVars, lockVars, histVars>>

\* the session has committed its work on the task it claimed ("Stage and
\* commit") and is about to push
InitShip ==
    /\ hook = "ship"
    /\ BuildIdle /\ CiIdle /\ LockIdle /\ NoHistory
    /\ now = 0
    /\ state = NoFile /\ stateMtime = 0
    /\ forceExit = FALSE /\ forceComplete = NoFile /\ ralphHandoff = FALSE
    /\ escalation = NoFile
    /\ testResults = NoFile /\ gitResults = NoFile /\ tasksData = NoFile
    /\ failures = NoFailures /\ rlmContext = NoFile
    /\ transcript = <<>>
    /\ decision = "none" /\ reason = "none"
    /\ \E a \in 0 .. (MAX_TASK_ATTEMPTS - 1) : \E p \in {"high", "medium", "low"} :
          tasks = [i \in TaskIds |-> IF i = shipTask THEN QueueTask("todo", p, a)
                                     ELSE NoQueueTask]
    /\ dateWorks = TRUE
    /\ completedTasks = [i \in TaskIds |-> NoEntry]
    /\ claims = [i \in TaskIds |-> IF i = shipTask
                                   THEN Claim(shipper, now, expiresAt(now, dateWorks))
                                   ELSE NoClaim]
    /\ wpc = [w \in Workers |-> IF w = shipper THEN "execute" ELSE "exit"]
    /\ wtask = [w \in Workers |-> IF w = shipper THEN shipTask ELSE NoTask]
    /\ wexpires = [w \in Workers |-> IF w = shipper THEN expiresAt(now, dateWorks) ELSE 0]
    /\ wseen = [w \in Workers |-> [i \in TaskIds |-> NoClaim]]
    /\ spc = "push"
    /\ PUSH_ATTEMPTS = 0 /\ PUSH_SUCCESS = 0 /\ GIT_CONFLICT = 0
    /\ rebasing = "none"
    /\ head = "local" /\ origin = "remote"
    /\ recoveryBranch = "absent"
    /\ gitConflicts = NoFile

ShipStep ==
    \/ PushAttempt
    \/ RebaseFailed
    \/ LoopEnds
    \/ HandlePushOutcome
    \/ ShipSucceeds
    \/ RecordConflict
    \/ MarkGitBlocked
    \/ ReleaseClaim
    \/ CreateRecoveryBranch
    \/ ResetHard

NextShip == ShipStep \/ ShipCrashes

\* a session that has not ended goes on with its next step
SpecShip == InitShip /\ [][NextShip]_vars /\ WF_vars(ShipStep)

\* the session is through conflict handling
ConflictHandled == spc = "next" /\ GIT_CONFLICT = 1

\* C17: when a push is rejected and the rebase stops on conflicts, the rebase
\* is aborted, a conflict record for the item is written, the claim is
\* released, and the attempt count stays what it was before the attempt
C17_ConflictHandling ==
    /\ [](GIT_CONFLICT = 1 => rebasing = "none")
    /\ [](ConflictHandled =>
             /\ gitConflicts # NoFile
             /\ gitConflicts.session = shipper
             /\ claims[shipTask] = NoClaim
             /\ tasks[shipTask].status = "git-blocked")
    /\ [][ (spc \in {"push", "diagnose"} \/ GIT_CONFLICT' = 1) =>
              tasks'[shipTask].attempts = tasks[shipTask].attempts ]_vars

C17_Witness ==
    /\ ConflictHandled
    /\ PUSH_ATTEMPTS >= 2
    /\ gitConflicts # NoFile /\ claims[shipTask] = NoClaim
    /\ tasks[shipTask].attempts = MAX_TASK_ATTEMPTS - 1

\* the working branch is hard-reset to origin in this step
HardReset == spc = "reset" /\ head' = origin

\* C18: whenever a conflict record exists, also between the steps of conflict
\* handling and after a crash, a recovery branch exists that holds the local
\* commit of the moment of conflict; the working branch is not hard-reset
\* before that branch exists
C18_QuarantineKeepsWork ==
    /\ [](gitConflicts # NoFile =>
             /\ recoveryBranch # "absent"
             /\ recoveryBranch = gitConflicts.localCommit)
    /\ [][ HardReset => recoveryBranch # "absent" ]_vars

\* the push attempts are used up without a successful push and without a
\* conflict, and the outcome is handled in this step
PushExhausted ==
    /\ spc = "outcome" /\ spc' = "next"
    /\ PUSH_SUCCESS = 0 /\ GIT_CONFLICT = 0

\* C19: when the push attempts are used up without success and without a
\* conflict diagnosis, the item is marked push-failed, its claim is released,
\* and its attempt count is incremented by 1
C19_PushExhaustion ==
    [][ PushExhausted =>
           /\ tasks'[shipTask].status = "push-failed"
           /\ claims'[shipTask] = NoClaim
           /\ tasks'[shipTask].attempts = tasks[shipTask].attempts + 1 ]_vars

\* the session has left the push loop
LoopDone ==
    spc \in {"outcome", "success", "record", "mark", "release", "stash", "reset", "next"}

attemptsExhausted ==
    PUSH_ATTEMPTS >= MAX_PUSH_ATTEMPTS /\ PUSH_SUCCESS = 0 /\ GIT_CONFLICT = 0

\* how many of: push succeeded, conflict detected, attempts exhausted
Outcomes ==
    (IF PUSH_SUCCESS = 1 THEN 1 ELSE 0) + (IF GIT_CONFLICT = 1 THEN 1 ELSE 0)
      + (IF attemptsExhausted THEN 1 ELSE 0)

\* C20: at most 3 push attempts are made for an item whatever the pushes and
\* rebases return, and the loop of a session that keeps running ends in exactly
\* one of: push succeeded, conflict detected, attempts exhausted
C20_PublishLoopBounded ==
    /\ [](PUSH_ATTEMPTS <= MAX_PUSH_ATTEMPTS)
    /\ [](LoopDone => Outcomes = 1)
    /\ <>(LoopDone \/ spc = "crashed")

C20_Witness ==
    /\ LoopDone /\ attemptsExhausted
    /\ head = "rebased"

\* the session is through Step 5, On Success
SuccessHandled == spc = "next" /\ PUSH_SUCCESS = 1

\* C21: after a successful task the item is absent from the backlog, present
\* in the completed ledger with its commit reference, and has no claim
C21_ReleaseOnSuccess ==
    SuccessHandled =>
        /\ tasks[shipTask].status = "done"
        /\ completedTasks[shipTask] # NoEntry
        /\ completedTasks[shipTask].status = "done"
        /\ completedTasks[shipTask].commit = head
        /\ completedTasks[shipTask].commit = origin
        /\ claims[shipTask] = NoClaim

C21_Witness ==
    /\ SuccessHandled
    /\ PUSH_ATTEMPTS = MAX_PUSH_ATTEMPTS
    /\ completedTasks[shipTask] = LedgerEntry("done", shipper, "rebased")
    /\ claims[shipTask] = NoClaim

\* failures.json holds MAX_CONSECUTIVE_FAILURES or more for the persistent task
\* the session is working on
FailuresReached ==
    LET pending == getPendingTasks(tasksData, now)
    IN  /\ Len(pending) > 0
        /\ checkUserEscalation(failures, currentTask(pending).id)

\* C22: an escalation record is created once the failures of a work item
\* reach 3, and while the record exists every invocation without a marker
\* reports the pending escalation instead of re-injecting work, until the
\* record is removed
C22_Escalation ==
    [][ (HookStep /\ hook = "v2" /\ NoMarkers /\ rlmContext = NoFile) =>
           /\ (escalation = NoFile /\ FailuresReached) =>
                 escalation' # NoFile /\ decision' = "block"
           /\ escalation # NoFile =>
                 /\ decision' = "block" /\ reason' = "escalation_pending"
                 /\ state' = state /\ escalation' = escalation ]_vars

\* the text of FORCE_COMPLETE can be read from a file of the session
JustificationOnDisk(text) == forceComplete' # NoFile /\ forceComplete' = text

\* C23: with the force-complete marker present and no abort marker the
\* invocation returns allow at once, bypassing every other check, and the
\* operator's justification stays readable from the persisted files
C23_ForceComplete ==
    [][ (HookStep /\ hook \in {"v2", "enhanced"} /\ forceComplete # NoFile /\ ~forceExit) =>
           /\ decision' = "allow" /\ reason' = "force_complete"
           /\ state' = state /\ escalation' = escalation
           /\ JustificationOnDisk(forceComplete) ]_vars

\* the publish-workflow evidence is missing or failing: no git-results.json,
\* PR not created, CI not checked or failed, PR not merged
PublishEvidenceFails(gr) ==
    IF gr = NoFile THEN TRUE
    ELSE ~gr.prCreated \/ ~gr.ciChecked \/ ~gr.ciPassed \/ ~gr.merged

\* C24: when the session claims completion and the publish evidence is missing
\* or failing, the invocation forces the session back to REVIEW with
\* complete = false and returns block
C24_PublishGate ==
    [][ ( /\ HookStep /\ hook \in {"v2", "enhanced"}
          /\ ClaimsCompletion(state) /\ state.active
          /\ NoMarkers /\ escalation = NoFile /\ rlmContext = NoFile
          /\ EvidencePasses(testResults)
          /\ PublishEvidenceFails(gitResults) )
        => ForcedBackToReview ]_vars

\* the verdict of the Verification Gate of hook h on the evidence files tr
\* (test-results.json) and gr (git-results.json)
GateVerdict(h, tr, gr) ==
    IF h = "v2" THEN <<verifyTestResultsV2(tr), verifyGitResultsV2(gr)>>
    ELSE <<verifyTestResultsEnhanced(tr), verifyGitResultsEnhanced(gr)>>

\* C25: two successive evaluations of the Verification Gate with no external
\* change to the evidence files between them yield the same verdict: the
\* evidence an invocation leaves behind for the next one gives the verdict
\* that the evidence it found gives
C25_GateIdempotent ==
    [][ (HookStep /\ hook \in {"v2", "enhanced"} /\ decision' = "block") =>
           GateVerdict(hook, testResults', gitResults')
             = GateVerdict(hook, testResults, gitResults) ]_vars

----------------------------------------------------------------------------
\* The completion signal detector on transcripts of any length

MaxAppends == 3                      \* entries or runs of entries added to the transcript
BigBytes   == 30 * LineBytes         \* an entry with a large payload (a file read, a diff)

\* the entries a transcript of a session is made of
DetectorLines ==
    { Line("assistant", "text", DEEP_COMPLETE, "none", TRUE, LineBytes),
      Line("assistant", "tool_use", DEEP_COMPLETE, "none", TRUE, LineBytes),
      Line("assistant", "text", "none", "none", TRUE, BigBytes),
      Line("assistant", "text", DEEP_COMPLETE, "none", FALSE, LineBytes),
      Line("assistant", "string", DEEP_COMPLETE, "none", TRUE, LineBytes),
      Line("user", "text", DEEP_COMPLETE, "none", TRUE, LineBytes),
      Line("user", "string", "none", "none", TRUE, BigBytes) }

\* ASSISTANT_WINDOW tool calls of the worker in a row
ToolCallRun ==
    [i \in 1..ASSISTANT_WINDOW |->
        Line("assistant", "tool_use", "none", "none", TRUE, LineBytes)]

\* counts the entries and runs appended so far: a run is ASSISTANT_WINDOW lines
appends(log) ==
    Cardinality({i \in 1..Len(log) : log[i] \in DetectorLines})
      + (Len(log) - Cardinality({i \in 1..Len(log) : log[i] \in DetectorLines}))
          \div ASSISTANT_WINDOW

AppendEntry ==
    /\ hook = "detector"
    /\ appends(transcript) < MaxAppends
    /\ \E l \in DetectorLines : transcript' = Append(transcript, l)
    /\ Quiet
    /\ UNCHANGED <<hook, now, state, stateMtime, forceExit, forceComplete, ralphHandoff,
                   escalation, testResults, gitResults, tasksData, failures, rlmContext>>
    /\ UNCHANGED <<queueVars, shipVars, triageVars, ciVars, lockVars, histVars>>

AppendToolCalls ==
    /\ hook = "detector"
    /\ appends(transcript) < MaxAppends
    /\ transcript' = transcript \o ToolCallRun
    /\ Quiet
    /\ UNCHANGED <<hook, now, state, stateMtime, forceExit, forceComplete, ralphHandoff,
                   escalation, testResults, gitResults, tasksData, failures, rlmContext>>
    /\ UNCHANGED <<queueVars, shipVars, triageVars, ciVars, lockVars, histVars>>

\* checkPromiseInTranscript(transcriptPath, DEEP_COMPLETE) is called; reason
\* holds what it returned
ScanTranscript ==
    /\ hook = "detector"
    /\ decision' = "scan"
    /\ reason' = IF checkPromiseInTranscript(transcript, DEEP_COMPLETE)
                 THEN "seen" ELSE "not_seen"
    /\ UNCHANGED <<hook, now, state, stateMtime, forceExit, forceComplete, ralphHandoff,
                   escalation, testResults, gitResults, tasksData, failures, rlmContext,
                   transcript>>
    /\ UNCHANGED <<queueVars, shipVars, triageVars, ciVars, lockVars, histVars>>

InitDetector ==
    /\ hook = "detector"
    /\ now = 0
    /\ state = NoFile /\ stateMtime = 0
    /\ forceExit = FALSE /\ forceComplete = NoFile /\ ralphHandoff = FALSE
    /\ escalation = NoFile
    /\ testResults = NoFile /\ gitResults = NoFile /\ tasksData = NoFile
    /\ failures = NoFailures /\ rlmContext = NoFile
    /\ transcript = <<>>
    /\ decision = "none" /\ reason = "none"
    /\ QueueIdle

NextDetector == AppendEntry \/ AppendToolCalls \/ ScanTranscript

SpecDetector == InitDetector /\ [][NextDetector]_vars

\* entry i of the log lies within the trailing TRANSCRIPT_TAIL_BYTES bytes
inTail(log, i) == SuffixBytes(log, i) <= TRANSCRIPT_TAIL_BYTES

\* the worker-authored entries within the tail, and the ASSISTANT_WINDOW most
\* recent of them
workerEntries(log) ==
    {i \in 1..Len(log) : log[i].role = "assistant" /\ inTail(log, i)}

recentWorkerEntries(log) ==
    {i \in workerEntries(log) :
        Cardinality({j \in workerEntries(log) : j > i}) < ASSISTANT_WINDOW}

\* the sentinel stands in the text of well-formed entry i
textHolds(log, i, promise) ==
    log[i].json /\ log[i].part = "text" /\ log[i].promise = promise

\* a scan has just returned
Scanned == decision = "scan"

malformed(log, i) == ~log[i].json \/ log[i].part = "string"

\* the tail read cut an entry in two
tailCut(log) == SuffixBytes(log, 1) > TRANSCRIPT_TAIL_BYTES

\* C28: malformed entries among the inspected ones are skipped one by one: the
\* scan still reports a sentinel that stands in a well-formed inspected worker
\* entry
C28_MalformedSkipped ==
    ( /\ Scanned
      /\ \/ tailCut(transcript)
         \/ \E j \in recentWorkerEntries(transcript) : malformed(transcript, j)
      /\ \E i \in recentWorkerEntries(transcript) : textHolds(transcript, i, DEEP_COMPLETE) )
    => reason = "seen"

\* an unparseable entry is inspected before the entry that holds the sentinel
C28_Witness ==
    /\ Scanned /\ reason = "seen"
    /\ \E i \in recentWorkerEntries(transcript) : \E j \in recentWorkerEntries(transcript) :
          /\ j < i
          /\ ~transcript[j].json
          /\ textHolds(transcript, i, DEEP_COMPLETE)

----------------------------------------------------------------------------
(* deep-triage BUILD phase: the orchestrator spawns Task agents for the   *)
(* tasks of tasks-status.json and handles their results                   *)

MaxBuildTasks == 2
MaxBlocked == 4

BuildIds == 1 .. MaxBuildTasks
BlockReasons == {"tests fail", "types fail"}

BuildTask(status, attempts, lastError) ==
    [status |-> status, attempts |-> attempts, lastError |-> lastError]

\* buildTaskAgentPrompt(task)
originalPrompt == [prompt |-> "original", error |-> "none"]

\* the prompt of a new agent that is given the previous error
errorContextPrompt(lastError) == [prompt |-> "error context", error |-> lastError]

\* what handling one reported failure does: the task record written, the
\* agents spawned by the handling itself, and whether the user is asked
Handled(task, spawned, ask) == [task |-> task, spawned |-> spawned, ask |-> ask]

\* "3. Handle failures (prescriptive retry)"
handleFailure(task, lastError) ==
    IF task.attempts < 2
    THEN Handled([task EXCEPT !.status = "pending", !.attempts = @ + 1], <<>>, FALSE)
    ELSE IF task.attempts < 3
    THEN Handled([task EXCEPT !.attempts = @ + 1],
                 <<errorContextPrompt(lastError)>>, FALSE)
    ELSE Handled([task EXCEPT !.status = "escalated"], <<>>, FALSE)

\* "On TASK_BLOCKED"
onTaskBlocked(task, reasonGiven) ==
    LET counted == [task EXCEPT !.attempts = @ + 1, !.lastError = reasonGiven]
        retried == IF counted.attempts < 2
                   THEN Handled([counted EXCEPT !.status = "pending"], <<>>, FALSE)
                   ELSE Handled(counted, <<errorContextPrompt(counted.lastError)>>, FALSE)
    IN  IF counted.attempts >= 3
        THEN Handled([retried.task EXCEPT !.status = "escalated"], retried.spawned, TRUE)
        ELSE retried

handleResult(h, task, lastError) ==
    IF h = "failure handler" THEN handleFailure(task, lastError)
    ELSE onTaskBlocked(task, lastError)

\* "1. Select next batch" and "2. Spawn agents": a pending task gets an agent
\* with the task agent prompt; the orchestrator waits for the agents it
\* spawned before it selects again
SpawnAgent(i) ==
    /\ tasksStatus[i].status = "pending"
    /\ running[i] = 0
    /\ agents' = [agents EXCEPT ![i] = Append(@, originalPrompt)]
    /\ running' = [running EXCEPT ![i] = 1]
    /\ UNCHANGED <<resultHandler, tasksStatus, askedUser>>
    /\ UNCHANGED <<hookVars, queueVars, shipVars, ciVars, lockVars, histVars>>

\* "On TASK_COMPLETE"
TaskComplete(i) ==
    /\ running[i] > 0
    /\ tasksStatus' = [tasksStatus EXCEPT ![i].status = "complete"]
    /\ running' = [running EXCEPT ![i] = @ - 1]
    /\ UNCHANGED <<resultHandler, agents, askedUser>>
    /\ UNCHANGED <<hookVars, queueVars, shipVars, ciVars, lockVars, histVars>>

\* an agent of task i reports TASK_BLOCKED:reason and the orchestrator
\* handles it as the description it follows says
TaskBlocked(i, why) ==
    /\ running[i] > 0
    /\ tasksStatus[i].attempts < MaxBlocked
    /\ LET h == handleResult(resultHandler, tasksStatus[i], why)
       IN  /\ tasksStatus' = [tasksStatus EXCEPT ![i] = h.task]
           /\ agents' = [agents EXCEPT ![i] = @ \o h.spawned]
           /\ running' = [running EXCEPT ![i] = @ - 1 + Len(h.spawned)]
           /\ askedUser' = [askedUser EXCEPT ![i] = @ \/ h.ask]
    /\ UNCHANGED resultHandler
    /\ UNCHANGED <<hookVars, queueVars, shipVars, ciVars, lockVars, histVars>>

\* tasks-status.json as Step 1 writes it
InitTriage ==
    /\ hook = "triage"
    /\ now = 0
    /\ state = NoFile /\ stateMtime = 0
    /\ forceExit = FALSE /\ forceComplete = NoFile /\ ralphHandoff = FALSE
    /\ escalation = NoFile
    /\ testResults = NoFile /\ gitResults = NoFile /\ tasksData = NoFile
    /\ failures = NoFailures /\ rlmContext = NoFile
    /\ transcript = <<>>
    /\ decision = "none" /\ reason = "none"
    /\ ShipIdle
    /\ tasks = <<>>
    /\ claims = [i \in TaskIds |-> NoClaim]
    /\ wpc = <<>> /\ wseen = <<>> /\ wtask = <<>> /\ wexpires = <<>>
    /\ dateWorks = TRUE
    /\ completedTasks = [i \in TaskIds |-> NoEntry]
    /\ CiIdle /\ LockIdle /\ NoHistory
    /\ resultHandler \in {"failure handler", "TASK_BLOCKED handler"}
    /\ tasksStatus = [i \in BuildIds |-> BuildTask("pending", 0, "none")]
    /\ agents = [i \in BuildIds |-> <<>>]
    /\ running = [i \in BuildIds |-> 0]
    /\ askedUser = [i \in BuildIds |-> FALSE]

NextTriage ==
    \E i \in BuildIds :
        \/ SpawnAgent(i)
        \/ TaskComplete(i)
        \/ \E why \in BlockReasons : TaskBlocked(i, why)

SpecTriage == InitTriage /\ [][NextTriage]_vars

\* the prompts the claimed sequence gives a task: the first run, two retries
\* in place, one fresh attempt with the prior failure as context
inPlace(p) == p = originalPrompt
withContext(p) == p.prompt = "error context" /\ p.error \in BlockReasons

\* C29: under either result-handling description, a failing build task is
\* retried in place at most twice after its first run, then gets one fresh
\* agent that is given the prior failure, and is then marked escalated; an
\* escalated task has no agent running and gets none
C29_RetrySequence ==
    \A i \in BuildIds :
        /\ Len(agents[i]) <= 4
        /\ \A k \in 1 .. Len(agents[i]) :
              IF k <= 3 THEN inPlace(agents[i][k]) ELSE withContext(agents[i][k])
        /\ tasksStatus[i].status = "escalated" =>
              (Len(agents[i]) = 4 /\ running[i] = 0)

----------------------------------------------------------------------------
(* waitForCI of the v2.1 hook: poll gh pr checks until the checks settle   *)
(* or the time is up                                                      *)

\* 15 * 1000: 15 seconds
CI_POLL_INTERVAL_MS == 15000
\* 10 * 60 * 1000: 10 minutes
CI_MAX_WAIT_MS == 600000
GH_TIMEOUT_MS == 15000

\* how long one gh pr checks call takes; at GH_TIMEOUT_MS execSync throws
GhDurations == {0, 5000, GH_TIMEOUT_MS}

Check(st, conclusion) == [state |-> st, conclusion |-> conclusion]

\* the lists of checks a poll is given here
CheckLists == SUBSET { Check("PENDING", ""), Check("COMPLETED", "SUCCESS"),
                       Check("COMPLETED", "FAILURE"), Check("COMPLETED", "SKIPPED") }

pendingChecks(checks) == {c \in checks : c.state \in {"PENDING", "IN_PROGRESS", "QUEUED"}}
failedChecks(checks) == {c \in checks : c.conclusion \in {"FAILURE", "CANCELLED", "TIMED_OUT"}}

CiReturn(passed, timeout, noCi, error, checks) ==
    [returned |-> TRUE, passed |-> passed, timeout |-> timeout, noCi |-> noCi,
     error |-> error, checks |-> checks]

\* one turn of the while loop in which execSync or JSON.parse throws
PollThrows(d) ==
    /\ ciResult = NoReturn
    /\ ciElapsed < CI_MAX_WAIT_MS
    /\ ciPolls' = ciPolls + 1
    /\ ciElapsed' = ciElapsed + d
    /\ ciResult' = CiReturn(TRUE, FALSE, FALSE, TRUE, {})
    /\ UNCHANGED <<hookVars, queueVars, shipVars, triageVars, lockVars, histVars>>

\* one turn of the while loop in which gh pr checks answers with checks
PollAnswers(d, checks) ==
    /\ ciResult = NoReturn
    /\ ciElapsed < CI_MAX_WAIT_MS
    /\ d < GH_TIMEOUT_MS
    /\ ciPolls' = ciPolls + 1
    /\ IF checks = {}
       THEN /\ ciResult' = CiReturn(TRUE, FALSE, TRUE, FALSE, {})
            /\ ciElapsed' = ciElapsed + d
       ELSE IF failedChecks(checks) # {}
       THEN /\ ciResult' = CiReturn(FALSE, FALSE, FALSE, FALSE, checks)
            /\ ciElapsed' = ciElapsed + d
       ELSE IF pendingChecks(checks) = {}
       THEN /\ ciResult' = CiReturn(TRUE, FALSE, FALSE, FALSE, checks)
            /\ ciElapsed' = ciElapsed + d
       ELSE /\ ciResult' = ciResult
            /\ ciElapsed' = ciElapsed + d + CI_POLL_INTERVAL_MS
    /\ UNCHANGED <<hookVars, queueVars, shipVars, triageVars, lockVars, histVars>>

\* the loop condition fails: "Timeout"
WaitTimesOut ==
    /\ ciResult = NoReturn
    /\ ciElapsed >= CI_MAX_WAIT_MS
    /\ ciResult' = CiReturn(FALSE, TRUE, FALSE, FALSE, {})
    /\ UNCHANGED <<ciElapsed, ciPolls>>
    /\ UNCHANGED <<hookVars, queueVars, shipVars, triageVars, lockVars, histVars>>

\* main calls waitForCI(gitResults.pr.number)
InitCI ==
    /\ hook = "waitForCI"
    /\ now = 0
    /\ state = NoFile /\ stateMtime = 0
    /\ forceExit = FALSE /\ forceComplete = NoFile /\ ralphHandoff = FALSE
    /\ escalation = NoFile
    /\ testResults = NoFile /\ gitResults = NoFile /\ tasksData = NoFile
    /\ failures = NoFailures /\ rlmContext = NoFile
    /\ transcript = <<>>
    /\ decision = "none" /\ reason = "none"
    /\ QueueIdle

NextCI ==
    \/ \E d \in GhDurations : PollThrows(d)
    \/ \E d \in GhDurations : \E checks \in CheckLists : PollAnswers(d, checks)
    \/ WaitTimesOut

SpecCI == InitCI /\ [][NextCI]_vars

\* C30: the wait makes at most one poll per 15 seconds of the 10 minutes; a
\* wait that ran out of time returns passed = false; and it returns
\* passed = true only when gh pr checks answered and the answer had no
\* pending and no failed check
C30_CiWait ==
    /\ ciPolls * CI_POLL_INTERVAL_MS <= CI_MAX_WAIT_MS + CI_POLL_INTERVAL_MS
    /\ (ciResult.returned /\ ciResult.timeout) => ~ciResult.passed
    /\ (ciResult.returned /\ ciResult.passed) =>
          /\ ~ciResult.error
          /\ pendingChecks(ciResult.checks) = {}
          /\ failedChecks(ciResult.checks) = {}

----------------------------------------------------------------------------
(* The session record and the files beside it *)

\* the hook's own verdict on the test evidence
TestGatePassed(h, tr) ==
    IF h = "v2" THEN verifyTestResultsV2(tr).valid ELSE verifyTestResultsEnhanced(tr).valid

\* the hook's own publish check did not fail: it passed or was skipped
GitGateNotFailed(h, gr) ==
    LET v == IF h = "v2" THEN verifyGitResultsV2(gr) ELSE verifyGitResultsEnhanced(gr)
    IN  v.skip \/ v.valid

\* the invocation removed the session record
RecordDeleted == HookStep /\ state # NoFile /\ state' = NoFile

\* C31: a hook invocation deletes the session record only when the record has
\* complete = true and phase = COMPLETE, the test evidence is on disk and
\* passes the gate, and the publish check of the same invocation did not fail
C31_NoDeleteWhileActive ==
    [][ RecordDeleted =>
           /\ state.complete /\ state.phase = "COMPLETE"
           /\ testResults # NoFile
           /\ TestGatePassed(hook, testResults)
           /\ GitGateNotFailed(hook, gitResults)
           /\ decision' = "allow" ]_vars

\* the cleanup has run: the record of the session is gone
C31_Witness ==
    /\ hook = "enhanced"
    /\ state = NoFile /\ testResults = NoFile
    /\ decision = "allow" /\ reason = "exit_allowed"

----------------------------------------------------------------------------
(* A session nobody but the hook touches: no operator marker, no worker   *)
(* edit; the hook is invoked again and again while time passes             *)

\* Date.now() advances; the clock of the model stops once it has passed its
\* last tick, the session record has gone stale and no persistent task is
\* left that could still go stale
ClockAdvances ==
    /\ \/ now < MaxTicks * TickMs
       \/ state # NoFile /\ now - stateMtime <= STALE_THRESHOLD_MS
       \/ Len(getPendingTasks(tasksData, now)) > 0
    /\ now' = now + TickMs
    /\ Quiet
    /\ UNCHANGED <<hook, state, stateMtime, forceExit, forceComplete, ralphHandoff,
                   escalation, testResults, gitResults, tasksData, failures, rlmContext,
                   transcript>>
    /\ UNCHANGED <<queueVars, shipVars, triageVars, ciVars, lockVars, histVars>>

\* the worker, told to go on, works and then tries to stop again
WorkerTriesToStop ==
    /\ decision # "none"
    /\ Quiet
    /\ UNCHANGED <<hook, now, state, stateMtime, forceExit, forceComplete, ralphHandoff,
                   escalation, testResults, gitResults, tasksData, failures, rlmContext,
                   transcript>>
    /\ UNCHANGED <<queueVars, shipVars, triageVars, ciVars, lockVars, histVars>>

\* the host invokes the hook on the stop attempt
HookRuns == decision = "none" /\ (StopHookV4 \/ StopHookV2 \/ StopHookEnhanced)

NextAlone == HookRuns \/ WorkerTriesToStop \/ ClockAdvances

\* weak fairness of HookRuns and of WorkerTriesToStop: the first is enabled
\* exactly while decision = "none" and ends that, the second exactly while
\* decision # "none" and ends that
HookInvokedAgain == []<>(decision # "none") /\ []<>(decision = "none")

\* every stop attempt is answered by the hook, the worker tries again, and
\* time passes
SpecAlone == Init /\ [][NextAlone]_vars /\ HookInvokedAgain /\ WF_vars(ClockAdvances)

\* C32: in a session whose files only the hook changes, every block response
\* is followed, after finitely many invocations, by an allow response
C32_LoopBounded == (decision = "block") ~> (decision = "allow")

----------------------------------------------------------------------------
(* The verdict of verifyTestResults on every shape of test-results.json *)

CategoryResults == {NoResult, NotRun, Ran(FALSE), Ran(TRUE)}

\* every evidence record over the four categories, the allPassed flag and a
\* blockers list that is empty or has one entry
AllTestEvidence ==
    {NoFile} \cup
    { TestResults(a, b, c, d, ap, bl) :
        a \in CategoryResults, b \in CategoryResults, c \in CategoryResults,
        d \in CategoryResults, ap \in BOOLEAN, bl \in 0 .. 1 }

InitGate ==
    /\ hook \in {"v2", "enhanced"}
    /\ now = 0
    /\ state = NewState("internal", MaxCeiling, "COMPLETE")
    /\ stateMtime = 0
    /\ forceExit = FALSE /\ forceComplete = NoFile /\ ralphHandoff = FALSE
    /\ escalation = NoFile
    /\ testResults \in AllTestEvidence
    /\ gitResults = NoFile /\ tasksData = NoFile
    /\ failures = NoFailures /\ rlmContext = NoFile
    /\ transcript = <<>>
    /\ decision = "none" /\ reason = "none"
    /\ QueueIdle

\* main calls verifyTestResults() of the installed hook
VerifyTestResults ==
    /\ decision = "none"
    /\ LET v == IF hook = "v2" THEN verifyTestResultsV2(testResults)
                ELSE verifyTestResultsEnhanced(testResults)
       IN  /\ decision' = IF v.valid THEN "valid" ELSE "invalid"
           /\ reason' = v
    /\ UNCHANGED <<hook, now, state, stateMtime, forceExit, forceComplete, ralphHandoff,
                   escalation, testResults, gitResults, tasksData, failures, rlmContext,
                   transcript>>
    /\ UNCHANGED <<queueVars, shipVars, triageVars, ciVars, lockVars, histVars>>

NextGate == VerifyTestResults

SpecGate == InitGate /\ [][NextGate]_vars

\* the evidence the claim calls valid
EvidenceComplete(tr) ==
    /\ tr # NoFile
    /\ \A c \in Range(Categories) : tr.results[c] = Ran(TRUE)
    /\ tr.allPassed
    /\ tr.blockers = 0

\* number of entries of a verdict list that name category c
Mentions(list, c) == Cardinality({i \in 1 .. Len(list) : list[i][1] = c})

\* C33: the verdict is valid iff the record exists, all four categories ran
\* and passed, allPassed is true and there is no blocker; an unsatisfied
\* category is named exactly once, in missing when it has no result or did
\* not run and in failed when it ran and did not pass; and the two hooks give
\* the same verdict on the same evidence
C33_GateVerdict ==
    decision # "none" =>
        /\ reason.valid <=> EvidenceComplete(testResults)
        /\ testResults # NoFile =>
              \A c \in Range(Categories) :
                 LET r == testResults.results[c]
                 IN  /\ r = Ran(TRUE) =>
                          Mentions(reason.missing, c) + Mentions(reason.failed, c) = 0
                     /\ r \in {NoResult, NotRun} =>
                          (Mentions(reason.missing, c) = 1 /\ Mentions(reason.failed, c) = 0)
                     /\ r = Ran(FALSE) =>
                          (Mentions(reason.missing, c) = 0 /\ Mentions(reason.failed, c) = 1)
        /\ verifyTestResultsV2(testResults) = verifyTestResultsEnhanced(testResults)

----------------------------------------------------------------------------
(* The agent lock of stop-hook-v2.js: acquireLock and releaseLock, each   *)
(* file system call one step                                               *)

MaxAgents == 2
MaxLockTicks == 3

\* 5 * 60 * 1000: 5 minutes
LOCK_TIMEOUT_MS == 300000

\* one clock tick of the lock model: 2 minutes
LockTickMs == 120000

Agents == 1 .. MaxAgents

\* a lock file whose content JSON.parse rejects: damaged, or written halfway
CorruptFile == [file |-> "corrupt"]

LockData(agentId, acquiredAt) == [agentId |-> agentId, acquiredAt |-> acquiredAt]

Held(at) == [held |-> TRUE, at |-> at]

At(step, at) == [step |-> step, at |-> at]

LockRest == At("rest", 0)

\* acquireLock up to its decision: existsSync, readFileSync, JSON.parse, age
AcquireReads(p) ==
    /\ lpc[p] = LockRest
    /\ lheld[p] = NotHeld
    /\ IF lockFile = NoFile
       THEN /\ lpc' = [lpc EXCEPT ![p] = At("write", now)]
            /\ UNCHANGED lheld
       ELSE IF lockFile = CorruptFile
       THEN /\ lheld' = [lheld EXCEPT ![p] = Held(now)]
            /\ UNCHANGED lpc
       ELSE IF now - lockFile.acquiredAt < LOCK_TIMEOUT_MS
       THEN UNCHANGED <<lpc, lheld>>
       ELSE /\ lpc' = [lpc EXCEPT ![p] = At("write", now)]
            /\ UNCHANGED lheld
    /\ UNCHANGED <<lockFile, now>>
    /\ UNCHANGED <<hook, state, stateMtime, forceExit, forceComplete, ralphHandoff,
                   escalation, testResults, gitResults, tasksData, failures, rlmContext,
                   transcript, decision, reason>>
    /\ UNCHANGED <<queueVars, shipVars, triageVars, ciVars, histVars>>

\* writeFileSync opens and truncates the file
AcquireWriteBegins(p) ==
    /\ lpc[p].step = "write"
    /\ lockFile' = CorruptFile
    /\ lpc' = [lpc EXCEPT ![p] = At("writing", lpc[p].at)]
    /\ UNCHANGED <<lheld, now>>
    /\ UNCHANGED <<hook, state, stateMtime, forceExit, forceComplete, ralphHandoff,
                   escalation, testResults, gitResults, tasksData, failures, rlmContext,
                   transcript, decision, reason>>
    /\ UNCHANGED <<queueVars, shipVars, triageVars, ciVars, histVars>>

\* writeFileSync has written lockData; acquireLock returns acquired: true
AcquireWriteEnds(p) ==
    /\ lpc[p].step = "writing"
    /\ lockFile' = LockData(p, lpc[p].at)
    /\ lheld' = [lheld EXCEPT ![p] = Held(lpc[p].at)]
    /\ lpc' = [lpc EXCEPT ![p] = LockRest]
    /\ UNCHANGED now
    /\ UNCHANGED <<hook, state, stateMtime, forceExit, forceComplete, ralphHandoff,
                   escalation, testResults, gitResults, tasksData, failures, rlmContext,
                   transcript, decision, reason>>
    /\ UNCHANGED <<queueVars, shipVars, triageVars, ciVars, histVars>>

\* releaseLock up to its decision: existsSync, readFileSync, JSON.parse, agentId
ReleaseReads(p) ==
    /\ lpc[p] = LockRest
    /\ IF lockFile # NoFile /\ lockFile # CorruptFile /\ lockFile.agentId = p
       THEN /\ lpc' = [lpc EXCEPT ![p] = At("unlink", now)]
            /\ UNCHANGED lheld
       ELSE /\ lheld' = [lheld EXCEPT ![p] = NotHeld]
            /\ UNCHANGED lpc
    /\ UNCHANGED <<lockFile, now>>
    /\ UNCHANGED <<hook, state, stateMtime, forceExit, forceComplete, ralphHandoff,
                   escalation, testResults, gitResults, tasksData, failures, rlmContext,
                   transcript, decision, reason>>
    /\ UNCHANGED <<queueVars, shipVars, triageVars, ciVars, histVars>>

\* fs.unlinkSync(LOCK_FILE)
ReleaseUnlinks(p) ==
    /\ lpc[p].step = "unlink"
    /\ lockFile' = NoFile
    /\ lheld' = [lheld EXCEPT ![p] = NotHeld]
    /\ lpc' = [lpc EXCEPT ![p] = LockRest]
    /\ UNCHANGED now
    /\ UNCHANGED <<hook, state, stateMtime, forceExit, forceComplete, ralphHandoff,
                   escalation, testResults, gitResults, tasksData, failures, rlmContext,
                   transcript, decision, reason>>
    /\ UNCHANGED <<queueVars, shipVars, triageVars, ciVars, histVars>>

LockTick ==
    /\ now < MaxLockTicks * LockTickMs
    /\ now' = now + LockTickMs
    /\ UNCHANGED <<hook, state, stateMtime, forceExit, forceComplete, ralphHandoff,
                   escalation, testResults, gitResults, tasksData, failures, rlmContext,
                   transcript, decision, reason>>
    /\ UNCHANGED <<queueVars, shipVars, triageVars, ciVars, lockVars, histVars>>

\* two processes of the session directory; the lock file absent or damaged
InitLock ==
    /\ hook = "lock"
    /\ now = 0
    /\ state = NoFile /\ stateMtime = 0
    /\ forceExit = FALSE /\ forceComplete = NoFile /\ ralphHandoff = FALSE
    /\ escalation = NoFile
    /\ testResults = NoFile /\ gitResults = NoFile /\ tasksData = NoFile
    /\ failures = NoFailures /\ rlmContext = NoFile
    /\ transcript = <<>>
    /\ decision = "none" /\ reason = "none"
    /\ ShipIdle
    /\ BuildIdle /\ CiIdle
    /\ tasks = <<>>
    /\ claims = [i \in TaskIds |-> NoClaim]
    /\ wpc = <<>> /\ wseen = <<>> /\ wtask = <<>> /\ wexpires = <<>>
    /\ dateWorks = TRUE
    /\ completedTasks = [i \in TaskIds |-> NoEntry]
    /\ lockFile \in {NoFile, CorruptFile}
    /\ lpc = [p \in Agents |-> LockRest]
    /\ lheld = [p \in Agents |-> NotHeld]
    /\ NoHistory

NextLock ==
    \/ \E p \in Agents :
          \/ AcquireReads(p)
          \/ AcquireWriteBegins(p)
          \/ AcquireWriteEnds(p)
          \/ ReleaseReads(p)
          \/ ReleaseUnlinks(p)
    \/ LockTick

SpecLock == InitLock /\ [][NextLock]_vars

\* process p was granted the lock less than LOCK_TIMEOUT_MS ago and has not
\* released it
holdsLock(p) == lheld[p] # NotHeld /\ now - lheld[p].at < LOCK_TIMEOUT_MS

RemovesLock(p) == ReleaseUnlinks(p) /\ lockFile # NoFile

\* C34: at most one process holds a lock younger than the timeout, and
\* releaseLock removes the lock file only when it records the caller
C34_LockMutex ==
    /\ [](\A p, q \in Agents : (holdsLock(p) /\ holdsLock(q)) => p = q)
    /\ [][ \A p \in Agents :
              RemovesLock(p) => (lockFile # CorruptFile /\ lockFile.agentId = p) ]_vars

----------------------------------------------------------------------------
(* deep-execute: the auto-loop when tasks can end git-blocked *)

\* Step 6, items 2 and 3: the "## [ ]" tasks of tasks.md that are unclaimed,
\* without those with Attempts >= 3; a git-blocked task keeps its "## [ ]"
\* header
loopEligible(ts, cl, t) ==
    { i \in TaskIds : /\ ts[i].status \in {"todo", "git-blocked"}
                      /\ ts[i].attempts < MAX_TASK_ATTEMPTS
                      /\ IF cl[i] = NoClaim THEN TRUE ELSE claimExpired(cl[i], t) }

\* "Priority order" among the candidates el
pickTask(ts, el) ==
    IF el = {} THEN NoTask
    ELSE CHOOSE i \in el :
           \A j \in el : \/ PriorityRank(ts[i].priority) < PriorityRank(ts[j].priority)
                         \/ /\ PriorityRank(ts[i].priority) = PriorityRank(ts[j].priority)
                            /\ i <= j

\* Step 6 and Step 2 as a session follows them.  Step 2 and Step 6 name no
\* git-blocked filter, NOW EXECUTE item 3 says "skip git-blocked unless
\* resolved": a session does either.  The conflict of a git-blocked task is
\* not resolved here.  The loop exits when no eligible task remains.
FindNextInLoop(w) ==
    /\ hook = "queue"
    /\ wpc[w] = "find"
    /\ \E skipGitBlocked \in BOOLEAN :
         LET target == IF skipGitBlocked THEN nextTask(tasks, claims, now)
                       ELSE pickTask(tasks, loopEligible(tasks, claims, now))
         IN  /\ wtask' = [wtask EXCEPT ![w] = target]
             /\ wpc' = [wpc EXCEPT ![w] = IF target = NoTask THEN "exit" ELSE "claim"]
    /\ UNCHANGED <<tasks, claims, wseen, wexpires, dateWorks, completedTasks>>
    /\ UNCHANGED <<hookVars, shipVars, triageVars, ciVars, lockVars, histVars>>

\* Step 4 SHIP ends in a rebase conflict; Step 5, On Git-Blocked: conflict
\* record, Status git-blocked with Attempts unchanged, claim released,
\* "Continue to next task"
TaskGitBlocked(w) ==
    /\ hook = "queue"
    /\ wpc[w] = "execute"
    /\ gitConflicts' = ConflictRecord(w, head, origin)
    /\ tasks' = [tasks EXCEPT ![wtask[w]] = gitBlockedTask(@)]
    /\ claims' = [claims EXCEPT ![wtask[w]] = NoClaim]
    /\ wpc' = [wpc EXCEPT ![w] = "find"]
    /\ wtask' = [wtask EXCEPT ![w] = NoTask]
    /\ wexpires' = [wexpires EXCEPT ![w] = 0]
    /\ UNCHANGED <<wseen, dateWorks, completedTasks>>
    /\ UNCHANGED <<spc, PUSH_ATTEMPTS, PUSH_SUCCESS, GIT_CONFLICT, rebasing, head, origin,
                   recoveryBranch>>
    /\ UNCHANGED <<hookVars, triageVars, ciVars, lockVars, histVars>>

\* the task was not left git-blocked before and its run fails
FreshTaskFails(w) ==
    /\ wpc[w] = "execute"
    /\ tasks[wtask[w]].status = "todo"
    /\ TaskFails(w)

WorkerStep(w) ==
    \/ FindNextInLoop(w)
    \/ ReadClaims(w)
    \/ WriteClaim(w)
    \/ TaskSucceeds(w)
    \/ FreshTaskFails(w)
    \/ TaskGitBlocked(w)

NextConflicts == (\E w \in Workers : WorkerStep(w)) \/ QueueTick

\* "NEVER exit after single task": a session goes on with its next step
SpecConflicts ==
    InitQueue /\ [][NextConflicts]_vars /\ \A w \in Workers : WF_vars(WorkerStep(w))

\* session w takes a task in this step
TakesTask(w) == wpc[w] = "find" /\ wpc'[w] = "claim"

\* C35: a session that looks for work does not take a git-blocked item, and
\* every session's loop ends: from some point on all sessions have exited
C35_ConflictDoesNotStall ==
    /\ [][ \A w \in Workers :
              TakesTask(w) => tasks[wtask'[w]].status # "git-blocked" ]_vars
    /\ <>[](\A w \in Workers : wpc[w] = "exit")

----------------------------------------------------------------------------
(* tasks.md and completed-tasks.md as the files they are: a backlog of task
   blocks and a ledger of entries, each carrying the id written in its header
   and the title the user gave it.  deep-add and deep-plan append task blocks;
   a /deep execute session handles success, failure and skip one file write
   at a time. *)

MaxAdds == 3   \* work items added by deep-add and deep-plan together

\* "## [ ] task-XXX: {title}" with its Attempts line
TaskBlock(id, title, attempts) == [id |-> id, title |-> title, attempts |-> attempts]
\* "## [x] task-XXX: {title}" of completed-tasks.md, completed or SKIPPED
LedgerBlock(id, title, status) == [id |-> id, title |-> title, status |-> status]
NoBlock == [block |-> "absent"]

\* deep-add Step 2: grep -c "^## \[ \] task-" .deep/tasks.md 2>/dev/null || echo "0"
\* counts the task headers of the backlog; the new task takes the next number
countTaskHeaders(ts) == Len(ts)
deepAddId(ts) == countTaskHeaders(ts) + 1

\* deep-plan Step 6: LAST = the largest task-N of tasks.md, NEXT = ${LAST:-0} + 1
RECURSIVE lastTaskNumber(_)
lastTaskNumber(ts) ==
    IF ts = <<>> THEN 0
    ELSE LET rest == lastTaskNumber(Tail(ts))
         IN IF Head(ts).id > rest THEN Head(ts).id ELSE rest
deepPlanId(ts) == lastTaskNumber(ts) + 1

\* "remove entire block": the backlog without the block the session worked on
RECURSIVE removeBlock(_, _)
removeBlock(ts, b) ==
    IF ts = <<>> THEN <<>>
    ELSE IF Head(ts).id = b.id /\ Head(ts).title = b.title THEN Tail(ts)
    ELSE <<Head(ts)>> \o removeBlock(Tail(ts), b)

\* the block of the backlog with its Attempts counter incremented
bumpAttempts(ts, b) ==
    [k \in 1..Len(ts) |->
        IF ts[k].id = b.id /\ ts[k].title = b.title
        THEN TaskBlock(ts[k].id, ts[k].title, ts[k].attempts + 1)
        ELSE ts[k]]

BacklogFrame ==
    /\ UNCHANGED <<hookVars, shipVars, triageVars, ciVars, lockVars>>
    /\ UNCHANGED <<wseen, wexpires, dateWorks, visitStart>>

\* /deep add: Step 2 takes the id, the block is appended to tasks.md
DeepAdd ==
    /\ added < MaxAdds
    /\ added' = added + 1
    /\ tasks' = Append(tasks, TaskBlock(deepAddId(tasks), added + 1, 0))
    /\ UNCHANGED <<claims, wpc, wtask, completedTasks>>
    /\ BacklogFrame

\* /deep plan: Step 6 takes the id, the block is appended to tasks.md
DeepPlan ==
    /\ added < MaxAdds
    /\ added' = added + 1
    /\ tasks' = Append(tasks, TaskBlock(deepPlanId(tasks), added + 1, 0))
    /\ UNCHANGED <<claims, wpc, wtask, completedTasks>>
    /\ BacklogFrame

\* Steps 2-4 of /deep execute: an unclaimed task below the attempts limit is claimed
ClaimsTask(w) ==
    /\ wpc[w] = "find"
    /\ \E k \in 1..Len(tasks) :
          /\ tasks[k].id \notin claims
          /\ tasks[k].attempts < MAX_TASK_ATTEMPTS
          /\ claims' = claims \cup {tasks[k].id}
          /\ wtask' = [wtask EXCEPT ![w] = tasks[k]]
    /\ wpc' = [wpc EXCEPT ![w] = "execute"]
    /\ UNCHANGED <<tasks, completedTasks, added>>
    /\ BacklogFrame

\* On Success 2: the task block is removed from tasks.md
SuccessRemoves(w) ==
    /\ wpc[w] = "execute"
    /\ tasks' = removeBlock(tasks, wtask[w])
    /\ wpc' = [wpc EXCEPT ![w] = "removed"]
    /\ UNCHANGED <<claims, wtask, completedTasks, added>>
    /\ BacklogFrame

\* On Success 4: the entry is appended to completed-tasks.md
SuccessAppends(w) ==
    /\ wpc[w] = "removed"
    /\ completedTasks' = Append(completedTasks, LedgerBlock(wtask[w].id, wtask[w].title, "done"))
    /\ wpc' = [wpc EXCEPT ![w] = "appended"]
    /\ UNCHANGED <<tasks, claims, wtask, added>>
    /\ BacklogFrame

\* On Success 4 (second): the claim is removed from claims.json
SuccessReleases(w) ==
    /\ wpc[w] = "appended"
    /\ claims' = claims \ {wtask[w].id}
    /\ wpc' = [wpc EXCEPT ![w] = "find"]
    /\ wtask' = [wtask EXCEPT ![w] = NoBlock]
    /\ UNCHANGED <<tasks, completedTasks, added>>
    /\ BacklogFrame

\* On Failure 1-3: the error is logged in the task block, the claim is removed
\* and Attempts is incremented; at Attempts >= 3 the skip check follows
FailureLogs(w) ==
    /\ wpc[w] = "execute"
    /\ tasks' = bumpAttempts(tasks, wtask[w])
    /\ claims' = claims \ {wtask[w].id}
    /\ IF wtask[w].attempts + 1 >= MAX_TASK_ATTEMPTS
       THEN /\ wpc' = [wpc EXCEPT ![w] = "skip"]
            /\ wtask' = [wtask EXCEPT ![w] =
                            TaskBlock(wtask[w].id, wtask[w].title, wtask[w].attempts + 1)]
       ELSE /\ wpc' = [wpc EXCEPT ![w] = "find"]
            /\ wtask' = [wtask EXCEPT ![w] = NoBlock]
    /\ UNCHANGED <<completedTasks, added>>
    /\ BacklogFrame

\* On Failure 5, "Move task to completed-tasks.md with status SKIPPED": the
\* block leaves tasks.md and the entry enters completed-tasks.md, two file
\* writes whose order the text leaves open
SkipRemoves(w) ==
    /\ wpc[w] \in {"skip", "skipAppended"}
    /\ tasks' = removeBlock(tasks, wtask[w])
    /\ IF wpc[w] = "skip"
       THEN /\ wpc' = [wpc EXCEPT ![w] = "skipRemoved"]
            /\ UNCHANGED wtask
       ELSE /\ wpc' = [wpc EXCEPT ![w] = "find"]
            /\ wtask' = [wtask EXCEPT ![w] = NoBlock]
    /\ UNCHANGED <<claims, completedTasks, added>>
    /\ BacklogFrame

SkipAppends(w) ==
    /\ wpc[w] \in {"skip", "skipRemoved"}
    /\ completedTasks' = Append(completedTasks, LedgerBlock(wtask[w].id, wtask[w].title, "SKIPPED"))
    /\ IF wpc[w] = "skip"
       THEN /\ wpc' = [wpc EXCEPT ![w] = "skipAppended"]
            /\ UNCHANGED wtask
       ELSE /\ wpc' = [wpc EXCEPT ![w] = "find"]
            /\ wtask' = [wtask EXCEPT ![w] = NoBlock]
    /\ UNCHANGED <<tasks, claims, added>>
    /\ BacklogFrame

\* the session dies at any step; /deep execute is started again later
SessionCrashes(w) ==
    /\ wpc[w] # "find"
    /\ wpc' = [wpc EXCEPT ![w] = "find"]
    /\ wtask' = [wtask EXCEPT ![w] = NoBlock]
    /\ UNCHANGED <<tasks, claims, completedTasks, added>>
    /\ BacklogFrame

\* Step 3: a claim nobody holds any more passes its expiresAt and is removed
StaleClaimRemoved ==
    /\ \E id \in claims :
          /\ \A w \in Workers : IF wtask[w] = NoBlock THEN TRUE ELSE wtask[w].id # id
          /\ claims' = claims \ {id}
    /\ UNCHANGED <<tasks, wpc, wtask, completedTasks, added>>
    /\ BacklogFrame

InitBacklog ==
    /\ hook = "queue"
    /\ ShipIdle
    /\ BuildIdle /\ CiIdle /\ LockIdle /\ NoHistory
    /\ now = 0
    /\ state = NoFile /\ stateMtime = 0
    /\ forceExit = FALSE /\ forceComplete = NoFile /\ ralphHandoff = FALSE
    /\ escalation = NoFile
    /\ testResults = NoFile /\ gitResults = NoFile /\ tasksData = NoFile
    /\ failures = NoFailures /\ rlmContext = NoFile
    /\ transcript = <<>>
    /\ decision = "none" /\ reason = "none"
    /\ tasks = <<>>
    /\ claims = {}
    /\ wpc = [w \in Workers |-> "find"]
    /\ wseen = <<>>
    /\ wtask = [w \in Workers |-> NoBlock]
    /\ wexpires = <<>>
    /\ dateWorks = TRUE
    /\ completedTasks = <<>>

NextBacklog ==
    \/ DeepAdd
    \/ DeepPlan
    \/ \E w \in Workers : ClaimsTask(w)
    \/ \E w \in Workers : SuccessRemoves(w)
    \/ \E w \in Workers : SuccessAppends(w)
    \/ \E w \in Workers : SuccessReleases(w)
    \/ \E w \in Workers : FailureLogs(w)
    \/ \E w \in Workers : SkipRemoves(w)
    \/ \E w \in Workers : SkipAppends(w)
    \/ \E w \in Workers : SessionCrashes(w)
    \/ StaleClaimRemoved

SpecBacklog == InitBacklog /\ [][NextBacklog]_vars

\* the ids written in the headers of both files, in file order
workItemIds == [k \in 1..(Len(tasks) + Len(completedTasks)) |->
                   IF k <= Len(tasks) THEN tasks[k].id
                   ELSE completedTasks[k - Len(tasks)].id]

\* C36: task ids are unique - no two work items, in the backlog or in the
\* ledger, share an id, whatever add-task operations, completions and skips
\* came before
C36_UniqueIds ==
    \A i, j \in 1..Len(workItemIds) : i # j => workItemIds[i] # workItemIds[j]


\* the number of blocks of a file that carry the title
RECURSIVE copies(_, _)
copies(file, title) ==
    IF file = <<>> THEN 0
    ELSE (IF Head(file).title = title THEN 1 ELSE 0) + copies(Tail(file), title)

\* C38: no work item is lost or duplicated - every item ever added to the
\* backlog is, in every reachable state (between the steps of success,
\* failure and skip handling and after a crash at any step included), in
\* exactly one of the backlog and the ledger
C38_NoItemLostOrDuplicated ==
    \A title \in 1..added : copies(tasks, title) + copies(completedTasks, title) = 1

----------------------------------------------------------------------------
(* The enhanced hook with persistent tasks and no deep loop: the tasks of
   persistent-tasks.json are never completed by the worker, the clock stands
   still (no task goes stale), and the worker tries to stop again after every
   answer of the hook. *)

\* fresh task lists of persistent-tasks.json: pending or completed tasks that
\* no hook has counted yet
RECURSIVE FreshTasks(_)
FreshTasks(n) ==
    IF n = 0 THEN {<<>>}
    ELSE {Append(ts, Task(n, st, 0)) : ts \in FreshTasks(n - 1), st \in {"pending", "completed"}}

\* config.maxIterationsPerTask: not set (0), 1 or 2
FreshTaskFiles ==
    {TasksData(ts, m) : ts \in UNION {FreshTasks(n) : n \in 1..MaxTasks}, m \in 0..2}

InitCap ==
    /\ hook = "enhanced"
    /\ now = 0
    /\ state = NoFile /\ stateMtime = 0
    /\ forceExit = FALSE /\ forceComplete = NoFile /\ ralphHandoff = FALSE
    /\ escalation = NoFile
    /\ testResults = NoFile /\ gitResults = NoFile
    /\ tasksData \in FreshTaskFiles
    /\ failures = NoFailures /\ rlmContext = NoFile
    /\ transcript = <<>>
    /\ decision = "none" /\ reason = "none"
    /\ QueueIdle

EnhancedHookRuns == decision = "none" /\ StopHookEnhanced

NextCap ==
    \/ EnhancedHookRuns
    \/ WorkerTriesToStop

SpecCap == InitCap /\ [][NextCap]_vars /\ HookInvokedAgain

\* config?.maxIterationsPerTask || 5
maxIterOf(td) ==
    IF td.maxIterationsPerTask # 0 THEN td.maxIterationsPerTask ELSE DEFAULT_MAX_ITER_PER_TASK

\* no task is counted beyond the cap
WithinCap ==
    tasksData # NoFile =>
        \A k \in 1..Len(tasksData.tasks) : tasksData.tasks[k].iteration <= maxIterOf(tasksData)

\* a task at the cap that the hook looked at is blocked, and a blocked task is
\* left as it is by every later run
BlockedForGood ==
    tasksData # NoFile /\ tasksData' # NoFile =>
        \A k \in 1..Len(tasksData.tasks) :
            tasksData.tasks[k].status = "blocked" => tasksData'.tasks[k] = tasksData.tasks[k]

\* C37: per-task iteration cap of the enhanced hook - a persistent task whose
\* iteration count has reached maxIterationsPerTask (default 5) is marked
\* blocked and never selected again, so with a fixed set of tasks that are
\* never completed the hook answers block only finitely many times and then
\* allow
C37_IterationCap ==
    /\ []WithinCap
    /\ [][BlockedForGood]_vars
    /\ <>[](decision # "block")
    /\ []<>(decision = "allow")

C37_Witness ==
    /\ hook = "enhanced" /\ decision = "allow" /\ tasksData # NoFile
    /\ tasksData.maxIterationsPerTask = 0
    /\ Len(tasksData.tasks) = MaxTasks
    /\ \A k \in 1..Len(tasksData.tasks) :
          /\ tasksData.tasks[k].status = "blocked"
          /\ tasksData.tasks[k].iteration = DEFAULT_MAX_ITER_PER_TASK

----------------------------------------------------------------------------
(* Phase visits of a v4.0 session: the worker writes lines to the transcript,
   moves state.json from phase to phase as the prompts say, and the hook runs
   in between.  visitStart remembers how long the transcript was when the
   current phase was entered. *)

\* the worker writes the next phase to state.json: a new visit of that phase begins
WorkerStartsVisit ==
    /\ hook = "v4"
    /\ state # NoFile
    /\ \E p \in NextPhases(state.phase) :
          state' = [state EXCEPT !.phase = p,
                                 !.complete = IF p = "COMPLETE" /\ state.phase = "SHIP"
                                              THEN TRUE ELSE @]
    /\ stateMtime' = Mtime(hook, stateMtime, TRUE, now)
    /\ visitStart' = Len(transcript)
    /\ Quiet
    /\ UNCHANGED <<hook, now, forceExit, forceComplete, ralphHandoff, escalation,
                   testResults, gitResults, tasksData, failures, rlmContext, transcript>>
    /\ UNCHANGED <<queueVars, shipVars, triageVars, ciVars, lockVars, added>>

InitVisits ==
    /\ hook = "v4"
    /\ now = 0
    /\ state = NewState("internal", MaxCeiling, "PLAN")
    /\ stateMtime = 0
    /\ forceExit = FALSE /\ forceComplete = NoFile /\ ralphHandoff = FALSE
    /\ escalation = NoFile
    /\ testResults = NoFile /\ gitResults = NoFile /\ tasksData = NoFile
    /\ failures = NoFailures /\ rlmContext = NoFile
    /\ transcript = <<>>
    /\ decision = "none" /\ reason = "none"
    /\ QueueIdle

NextVisits ==
    \/ StopHookV4
    \/ AppendTranscript
    \/ WorkerStartsVisit

SpecVisits == InitVisits /\ [][NextVisits]_vars

\* the sentinel of the phase stands in a line written during the current visit
sentinelOfThisVisit ==
    \E i \in (visitStart + 1)..Len(transcript) :
        /\ hasAssistantMarker(transcript[i])
        /\ lineHasPromise(transcript[i], PHASE_PROMISES(state.phase))

\* C39: a sentinel is counted for one phase visit only - when the hook takes a
\* phase as complete, the phase sentinel it found was emitted during the
\* current visit of the phase, never during an earlier visit that is still
\* inside the window of the 10 latest assistant entries
C39_SentinelOfCurrentVisit ==
    (hook = "v4" /\ decision = "allow" /\ reason = "phase_complete") => sentinelOfThisVisit

----------------------------------------------------------------------------
(* A deep-loop session guarded by the enhanced hook in a project whose .deep/
   directory also holds the files of the task queue: a backlog, a claim held
   by a queue worker, a conflict record and a ledger entry. *)

InitShared ==
    /\ hook = "enhanced"
    /\ now = 0
    /\ state = NewState("internal", MaxCeiling, "PLAN")
    /\ stateMtime = 0
    /\ forceExit = FALSE /\ forceComplete = NoFile /\ ralphHandoff = FALSE
    /\ escalation = NoFile
    /\ \E sc \in Scenarios :
          /\ testResults = sc[1]
          /\ gitResults  = sc[2]
          /\ tasksData   = sc[3]
    /\ failures = NoFailures /\ rlmContext = NoFile
    /\ transcript = <<>>
    /\ decision = "none" /\ reason = "none"
    /\ tasks = OneItemBacklog
    /\ claims = [i \in TaskIds |-> IF i = 1 THEN Claim(1, 0, expiresAt(0, TRUE)) ELSE NoClaim]
    /\ completedTasks = [i \in TaskIds |-> IF i = 2 THEN LedgerEntry("done", 1, "local")
                                           ELSE NoEntry]
    /\ wpc = <<>> /\ wseen = <<>> /\ wtask = <<>> /\ wexpires = <<>>
    /\ dateWorks = TRUE
    /\ spc = "idle"
    /\ PUSH_ATTEMPTS = 0 /\ PUSH_SUCCESS = 0 /\ GIT_CONFLICT = 0
    /\ rebasing = "none"
    /\ head = "remote" /\ origin = "remote"
    /\ recoveryBranch = "absent"
    /\ gitConflicts = ConflictRecord(1, "local", "remote")
    /\ BuildIdle /\ CiIdle /\ LockIdle /\ NoHistory

NextShared ==
    \/ StopHookEnhanced
    \/ Tick
    \/ WorkerSetsPhase
    \/ OperatorWritesForceComplete

SpecShared == InitShared /\ [][NextShared]_vars

\* tasks.md, claims.json, git-conflicts.json and completed-tasks.md are as they were
QueueFilesKept ==
    /\ tasks' = tasks
    /\ claims' = claims
    /\ gitConflicts' = gitConflicts
    /\ completedTasks' = completedTasks

\* C40: post-completion cleanup of one session never deletes state it does
\* not own - after a run of the enhanced hook, cleanup included, the shared
\* backlog, claims table, conflict table and completed ledger of the queue
\* workers still exist with their prior contents
C40_CleanupKeepsQueueFiles == [][HookStep => QueueFilesKept]_vars

============================================================================
